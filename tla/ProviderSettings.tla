-------------------------- MODULE ProviderSettings ---------------------------
(***************************************************************************)
(* Which provider the agents use: the profiles the environment gives       *)
(* (config.go), the format chosen in the UI, kept in memory and in         *)
(* provider.json (service.go:157-262).  A request saves the file first and *)
(* switches the memory under a lock later; nothing orders two requests.    *)
(***************************************************************************)
EXTENDS Naturals

CONSTANTS
    Switchers,      \* requests POST /api/settings/provider
    Environments,   \* the environments the service may be started in
    NoFormat,       \* no provider.json, or no OPENCODE_PROVIDER_FORMAT
    MaxMishaps      \* bound: failing calls

OpenAI == "openai-compatible"
Anthropic == "anthropic"
Formats == {OpenAI, Anthropic}

(* What of an environment decides: the variable OPENCODE_PROVIDER_FORMAT,
   whether OPENCODE_PROVIDER_NPM is the Anthropic package, and which of the
   groups OPENCODE_*, OPENCODE_OPENAI_*, OPENCODE_ANTHROPIC_* name a URL, a key
   and a model. *)
Environment == [override : Formats \cup {NoFormat}, legacy : BOOLEAN,
                groups : SUBSET {"generic", OpenAI, Anthropic}]

ASSUME ProviderAssumption ==
    /\ Environments \subseteq Environment
    /\ NoFormat \notin Formats
    /\ MaxMishaps \in Nat

VARIABLES
    env,       \* the environment of this process
    file,      \* the format in provider.json
    active,    \* activeProviderFormat
    switch,    \* per request: its step and the format it asks for
    apart,     \* monitor: two requests crossed, or one failed half-way
    mishaps    \* failing calls so far

providerVars == <<env, file, active, switch, apart, mishaps>>

(* loadOpenCodeProviders and IsConfigured; defaultProviderFormat. *)
ConfiguredIn(e) ==
    {f \in Formats :
        \/ f \in e.groups
        \/ "generic" \in e.groups /\ (f = OpenAI \/ e.legacy)}

DefaultFormat(e) ==
    IF e.override # NoFormat THEN e.override
    ELSE IF e.legacy THEN Anthropic ELSE OpenAI

(* loadProviderFormat; a file that cannot be read is like none. *)
LoadProviderFormat(e, saved) ==
    IF e.override \in ConfiguredIn(e) THEN e.override
    ELSE IF saved \in ConfiguredIn(e) THEN saved
    ELSE DefaultFormat(e)

(* activeDockerConfig: the profile of the active format, and the profile of the
   default one when that is not configured. *)
RunProvider == IF active \in ConfiguredIn(env) THEN active ELSE DefaultFormat(env)

(* activeOpenCodeProvider succeeds. *)
ProviderUsable == active \in ConfiguredIn(env)

Pending(step) == {s \in Switchers : switch[s].step = step}

NoSwitch == [step |-> "idle", format |-> NoFormat]

ProviderTypeOK ==
    /\ env \in Environments
    /\ file \in Formats \cup {NoFormat}
    /\ active \in Formats
    /\ switch \in [Switchers ->
          [step : {"idle", "save", "switch", "done", "failed"},
           format : Formats \cup {NoFormat}]]
    /\ \A s \in Pending("save") \cup Pending("switch") :
          switch[s].format \in Formats
    /\ apart \in BOOLEAN
    /\ mishaps \in 0..MaxMishaps

ProviderInit ==
    /\ env \in Environments
    /\ file = NoFormat
    /\ active = LoadProviderFormat(env, NoFormat)
    /\ switch = [s \in Switchers |-> NoSwitch]
    /\ apart = FALSE
    /\ mishaps = 0

(* Mutant: the profile need not be complete. *)
SwitchCheckAny(s, f) ==
    /\ switch[s].step = "idle"
    /\ f \in Formats
    /\ switch' = [switch EXCEPT ![s] = [step |-> "save", format |-> f]]
    /\ UNCHANGED <<env, file, active, apart, mishaps>>

(* SetProviderFormat refuses a format whose profile is not complete. *)
SwitchCheck(s, f) ==
    /\ switch[s].step = "idle"
    /\ f \in ConfiguredIn(env)
    /\ switch' = [switch EXCEPT ![s] = [step |-> "save", format |-> f]]
    /\ UNCHANGED <<env, file, active, apart, mishaps>>

(* saveProviderFormat *)
SwitchSave(s) ==
    /\ switch[s].step = "save"
    /\ file' = switch[s].format
    /\ switch' = [switch EXCEPT ![s].step = "switch"]
    /\ apart' = (Pending("switch") # {})
    /\ UNCHANGED <<env, active, mishaps>>

(* Mutant: the error of the write is ignored. *)
SwitchSaveFailsGoesOn(s) ==
    /\ switch[s].step = "save"
    /\ mishaps < MaxMishaps
    /\ switch' = [switch EXCEPT ![s].step = "switch"]
    /\ mishaps' = mishaps + 1
    /\ UNCHANGED <<env, file, active, apart>>

(* The write fails and the request is answered with an error.  The file may
   have been replaced: the directory is synced after the rename. *)
SwitchSaveFails(s) ==
    /\ switch[s].step = "save"
    /\ mishaps < MaxMishaps
    /\ file' \in {file, switch[s].format}
    /\ switch' = [switch EXCEPT ![s].step = "failed"]
    /\ apart' = (apart \/ file' # file)
    /\ mishaps' = mishaps + 1
    /\ UNCHANGED <<env, active>>

SwitchMemory(s) ==
    /\ switch[s].step = "switch"
    /\ active' = switch[s].format
    /\ switch' = [switch EXCEPT ![s].step = "done"]
    /\ UNCHANGED <<env, file, apart, mishaps>>

(* The settings in NewService, in a process that follows a crash, with the same
   or another environment: requests are gone, and one that was writing may or
   may not have replaced the file. *)
LoadSettings ==
    /\ env' \in Environments
    /\ file' \in {file} \cup {switch[s].format : s \in Pending("save")}
    /\ active' = LoadProviderFormat(env', file')
    /\ switch' = [s \in Switchers |-> NoSwitch]
    /\ apart' = FALSE

ProviderNext ==
    \E s \in Switchers :
        \/ \E f \in Formats : SwitchCheck(s, f)
        \/ SwitchSave(s)
        \/ SwitchSaveFails(s)
        \/ SwitchMemory(s)
-----------------------------------------------------------------------------
(* The format in use is the one that a restart in the same environment finds
   (service.go:195), once the requests are answered: unless the last one crossed
   another between the file and the memory or failed after replacing the file,
   or the environment names a format, which wins over what was chosen. *)
SelectionSurvives ==
    \/ Pending("switch") # {}
    \/ apart
    \/ env.override \in ConfiguredIn(env)
    \/ active = LoadProviderFormat(env, file)
=============================================================================
