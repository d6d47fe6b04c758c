---------------------------- MODULE SettingsBoot ----------------------------
(***************************************************************************)
(* How settings get from the Settings page into a running process: the     *)
(* page (frontend/src/pages/Settings.tsx, api/client.ts), the requests     *)
(* that store settings and secrets (internal/collector/settings_api.go,    *)
(* secrets_api.go, internal/store), the request that restarts the process  *)
(* (ai_restart_api.go), and the boot that reads them                       *)
(* (cmd/kubesentinel-ai/main.go, internal/config).                         *)
(*                                                                         *)
(* The cluster is external.  It runs one replica and rolls it: a new       *)
(* process boots while the old one still serves, and takes over when it    *)
(* listens.  A process may die, serving or booting, and is started again.  *)
(***************************************************************************)
EXTENDS Integers, FiniteSets

CONSTANTS
    Pages,           \* Settings pages open in browsers
    Fields,          \* the fields of AppSettings
    Values,          \* what a field or a secret may hold
    Blank,           \* the empty string; for a secret, that it is not there
    Unchanged,       \* what a patch says of a secret it does not name
    Typed,           \* the secrets that are typed, as patches
    Unsaved,         \* the app_settings row as the migration leaves it, an empty object
    EnvSettings,     \* LoadConfig: environment and code defaults
    EnvSecrets,      \* LoadConfig: the secrets of the environment
    Defaults,        \* DefaultAppSettings, and mockSettings, which are the same
    MaxSaves,        \* bound: saves
    MaxRestarts,     \* bound: restarts of the process
    MaxDbFaults      \* bound: failing database calls

Secrets == {"aiApiKey", "gitToken"}
Items == {"settings"} \cup Secrets

Text == Values \cup {Blank}
Settings == [Fields -> Text]
SecretTable == [Secrets -> Text]
Patches == [Secrets -> Text \cup {Unchanged}]
NoSecrets == [n \in Secrets |-> Unchanged]

ASSUME SettingsAssumption ==
    /\ Blank \notin Values
    /\ Unchanged \notin Text
    /\ Unsaved \notin Settings
    /\ {EnvSettings, Defaults} \subseteq Settings
    /\ EnvSecrets \in SecretTable
    /\ Typed \subseteq Patches
    /\ {MaxSaves, MaxRestarts, MaxDbFaults} \subseteq Nat

VARIABLES
    stored,      \* the app_settings row
    secrets,     \* the app_secrets table
    serving,     \* a process serves requests
    active,      \* its configuration, fixed at its boot
    boot,        \* a process that boots: what it reads next, "ready", or "idle" if there is none
    draft,       \* its configuration so far
    stage,       \* per page: what it is doing
    form,        \* per page: the settings it shows
    patch,       \* per page: the secrets typed into it
    thenRestart, \* per page: whether the save was ordered by the restart button
    edited,      \* history, per page: fields the operator has edited since form was in the table
    foreign,     \* history, per page: what others have written since the page read or wrote it
    misled,      \* history, per page: its form is not what the table held when it was loaded
    saves, restarts, dbFaults  \* what the bounds count

dbVars == <<stored, secrets>>
bootVars == <<serving, active, boot, draft, restarts>>
pageVars == <<stage, form, patch, thenRestart, edited, foreign, misled, saves>>
vars == <<dbVars, bootVars, pageVars, dbFaults>>

\* GetSettings: nothing saved reads as the defaults.
Shown(row) == IF row = Unsaved THEN Defaults ELSE row

\* applyDBSettings, and the two secrets after it: blank leaves the environment.
\* A boolean is never blank.
Over(env, read) == [x \in DOMAIN env |-> IF read[x] = Blank THEN env[x] ELSE read[x]]

\* failed: history, the reads that failed during the boot.
Environment == [settings |-> EnvSettings, secrets |-> EnvSecrets, failed |-> {}]
Configs == [settings : Settings, secrets : SecretTable, failed : SUBSET Items]

Init ==
    /\ stored = Unsaved
    /\ secrets = [n \in Secrets |-> Blank]
    /\ serving = FALSE
    /\ active = Environment
    /\ boot = "settings"
    /\ draft = Environment
    /\ stage = [p \in Pages |-> "closed"]
    /\ form = [p \in Pages |-> Defaults]
    /\ patch = [p \in Pages |-> NoSecrets]
    /\ thenRestart = [p \in Pages |-> FALSE]
    /\ edited = [p \in Pages |-> {}]
    /\ foreign = [p \in Pages |-> {}]
    /\ misled = [p \in Pages |-> FALSE]
    /\ saves = 0 /\ restarts = 0 /\ dbFaults = 0

DbFault ==
    /\ dbFaults < MaxDbFaults
    /\ dbFaults' = dbFaults + 1

-----------------------------------------------------------------------------
(* The boot.  Before it reads it has reached the database.                  *)

\* GetSettings and applyDBSettings.  A failing query leaves no bytes, for which
\* GetSettings returns the defaults before it looks at the error.
LoadSettings ==
    /\ boot = "settings"
    /\ boot' = "aiApiKey"
    /\ \/ /\ draft' = [draft EXCEPT !.settings = Over(EnvSettings, Shown(stored))]
          /\ UNCHANGED dbFaults
       \/ /\ draft' = [draft EXCEPT !.settings = Over(EnvSettings, Defaults), !.failed = @ \cup {boot}]
          /\ DbFault
    /\ UNCHANGED <<serving, active, restarts, dbVars, pageVars>>

\* GetSecret, whose error is dropped: then the environment's secret stays.
LoadSecret(n) ==
    /\ boot = n
    /\ boot' = IF n = "aiApiKey" THEN "gitToken" ELSE "ready"
    /\ \/ /\ draft' = [draft EXCEPT !.secrets[n] = Over(EnvSecrets, secrets)[n]]
          /\ UNCHANGED dbFaults
       \/ /\ draft' = [draft EXCEPT !.failed = @ \cup {n}]
          /\ DbFault
    /\ UNCHANGED <<serving, active, restarts, dbVars, pageVars>>

-----------------------------------------------------------------------------
(* One process takes over from another, which may cut off requests.          *)

Saving == {p \in Pages : stage[p] \in Items}

\* The handler of the secrets has stored the first of two.
HalfWay(p) == stage[p] = "gitToken" /\ patch[p]["aiApiKey"] # Unchanged

\* A request that has arrived ends with the process, one that has not may
\* reach the next.
CutOff ==
    \E lost \in SUBSET Saving :
        /\ \A p \in Saving : HalfWay(p) => p \in lost
        /\ stage' = [p \in Pages |-> IF p \in lost THEN "failed" ELSE stage[p]]

Serve ==
    /\ boot = "ready"
    /\ boot' = "idle"
    /\ serving' = TRUE
    /\ active' = draft
    /\ draft' = Environment
    /\ CutOff
    /\ UNCHANGED <<restarts, dbVars, form, patch, thenRestart, edited, foreign, misled, saves, dbFaults>>

StartBoot == boot' = "settings" /\ draft' = Environment

Again == restarts < MaxRestarts /\ restarts' = restarts + 1

\* The serving process dies.
Die ==
    /\ serving
    /\ Again
    /\ serving' = FALSE
    /\ IF boot = "idle" THEN StartBoot ELSE UNCHANGED <<boot, draft>>
    /\ CutOff
    /\ UNCHANGED <<active, dbVars, form, patch, thenRestart, edited, foreign, misled, saves, dbFaults>>

\* The booting process dies: the database is out of reach, a migration fails,
\* or the notifier does not know its type.
BootDies ==
    /\ boot # "idle"
    /\ Again
    /\ StartBoot
    /\ UNCHANGED <<serving, active, dbVars, pageVars, dbFaults>>

-----------------------------------------------------------------------------
(* The page *)

\* What a page shows that has just been opened or reloaded.
Show(p, settings, isStored) ==
    /\ stage' = [stage EXCEPT ![p] = "open"]
    /\ form' = [form EXCEPT ![p] = settings]
    /\ edited' = [edited EXCEPT ![p] = {}]
    /\ foreign' = [foreign EXCEPT ![p] = {}]
    /\ misled' = [misled EXCEPT ![p] = ~isStored]
    /\ patch' = [patch EXCEPT ![p] = NoSecrets]
    /\ thenRestart' = [thenRestart EXCEPT ![p] = FALSE]
    /\ UNCHANGED <<saves, dbVars, bootVars>>

\* (mutant) The API answers with the configuration of the process.
OpenOnActive(p) ==
    /\ stage[p] \notin Items \cup {"asking"}
    /\ serving
    /\ Show(p, active.settings, TRUE)
    /\ UNCHANGED dbFaults

\* fetchSettings.  The page shows the defaults when the query fails, and when
\* the request does.
Open(p) ==
    /\ stage[p] \notin Items \cup {"asking"}
    /\ \/ serving /\ Show(p, Shown(stored), TRUE) /\ UNCHANGED dbFaults
       \/ serving /\ Show(p, Defaults, FALSE) /\ DbFault
       \/ ~serving /\ Show(p, Defaults, FALSE) /\ UNCHANGED dbFaults

\* (mutant) The restart button does not save first.
SaveLater(p, f, v, sent, restart) ==
    /\ stage[p] \in {"open", "saved", "failed", "restarting"}
    /\ saves < MaxSaves
    /\ saves' = saves + 1
    /\ form' = [form EXCEPT ![p][f] = v]
    /\ edited' = [edited EXCEPT ![p] = @ \cup {f}]
    /\ patch' = [patch EXCEPT ![p] = sent]
    /\ thenRestart' = [thenRestart EXCEPT ![p] = restart]
    /\ stage' = [stage EXCEPT ![p] = IF restart THEN "asking" ELSE "settings"]
    /\ UNCHANGED <<foreign, misled, dbVars, bootVars, dbFaults>>

\* The operator edits a field, types secrets or none, and presses save or
\* restart, which saves first.  (Only other clients than the page send a blank
\* secret, which deletes it.)
Save(p, f, v, sent, restart) ==
    /\ stage[p] \in {"open", "saved", "failed", "restarting"}
    /\ saves < MaxSaves
    /\ saves' = saves + 1
    /\ form' = [form EXCEPT ![p][f] = v]
    /\ edited' = [edited EXCEPT ![p] = @ \cup {f}]
    /\ patch' = [patch EXCEPT ![p] = sent]
    /\ thenRestart' = [thenRestart EXCEPT ![p] = restart]
    /\ stage' = [stage EXCEPT ![p] = "settings"]
    /\ UNCHANGED <<foreign, misled, dbVars, bootVars, dbFaults>>

\* (mutant) A secret that the patch does not name is written too.
RestUnskipped(p, item) ==
    CASE item = "settings" -> "aiApiKey"
      [] item = "aiApiKey" -> "gitToken"
      [] OTHER -> IF thenRestart[p] THEN "asking" ELSE "saved"

\* Where a page goes on after an item is written: secrets that the patch does
\* not name are left out, and without any there is no second request.
Rest(p, item) ==
    CASE item = "settings" /\ patch[p]["aiApiKey"] # Unchanged -> "aiApiKey"
      [] item # "gitToken" /\ patch[p]["gitToken"] # Unchanged /\
            ~(item = "settings" /\ patch[p]["aiApiKey"] # Unchanged) -> "gitToken"
      [] OTHER -> IF thenRestart[p] THEN "asking" ELSE "saved"

\* The statement for an item has been applied on behalf of a page.
Applied(p, item) ==
    foreign' = [q \in Pages |-> IF q = p THEN foreign[q] \ {item} ELSE foreign[q] \cup {item}]

Proceed(p, item) == stage' = [stage EXCEPT ![p] = Rest(p, item)]
GiveUp(p) == stage' = [stage EXCEPT ![p] = "failed"]

\* PUT /api/settings replaces the whole row; when it fails, applied or not, the
\* page stops there.
PutSettings(p) ==
    /\ stage[p] = "settings"
    /\ serving
    /\ \/ /\ stored' = form[p]
          /\ Applied(p, "settings")
          /\ Proceed(p, "settings")
          /\ edited' = [edited EXCEPT ![p] = {}]
          /\ misled' = [misled EXCEPT ![p] = FALSE]
          /\ UNCHANGED dbFaults
       \/ /\ DbFault
          /\ \/ stored' = form[p] /\ Applied(p, "settings")
             \/ UNCHANGED <<stored, foreign>>
          /\ GiveUp(p)
          /\ UNCHANGED <<edited, misled>>
    /\ UNCHANGED <<secrets, bootVars, form, patch, thenRestart, saves>>

\* (mutant) The handler drops the error of the statement.
PutSecretUnchecked(p, n) ==
    /\ stage[p] = n
    /\ serving
    /\ \/ /\ secrets' = [secrets EXCEPT ![n] = patch[p][n]]
          /\ Applied(p, n)
          /\ UNCHANGED dbFaults
       \/ /\ DbFault
          /\ UNCHANGED <<secrets, foreign>>
    /\ Proceed(p, n)
    /\ UNCHANGED <<stored, bootVars, form, patch, thenRestart, edited, misled, saves>>

\* applySecret, for the key and then for the token: set or delete.  When one
\* fails, so does the request, and what was done before stays done.
PutSecret(p, n) ==
    /\ stage[p] = n
    /\ serving
    /\ \/ /\ secrets' = [secrets EXCEPT ![n] = patch[p][n]]
          /\ Applied(p, n)
          /\ Proceed(p, n)
          /\ UNCHANGED dbFaults
       \/ /\ DbFault
          /\ \/ secrets' = [secrets EXCEPT ![n] = patch[p][n]] /\ Applied(p, n)
             \/ UNCHANGED <<secrets, foreign>>
          /\ GiveUp(p)
    /\ UNCHANGED <<stored, bootVars, form, patch, thenRestart, edited, misled, saves>>

\* Nobody serves the request.
Refused(p) ==
    /\ stage[p] \in Items
    /\ ~serving
    /\ GiveUp(p)
    /\ UNCHANGED <<dbVars, bootVars, form, patch, thenRestart, edited, foreign, misled, saves, dbFaults>>

\* POST /api/ai/restart: the deployment is rolled, or the request fails before
\* or, cut off, after that.
AskRestart(p) ==
    /\ stage[p] = "asking"
    /\ \/ /\ serving /\ Again /\ StartBoot
          /\ \E s \in {"restarting", "saved"} : stage' = [stage EXCEPT ![p] = s]
       \/ /\ stage' = [stage EXCEPT ![p] = "saved"]
          /\ UNCHANGED <<restarts, boot, draft>>
    /\ UNCHANGED <<serving, active, dbVars, form, patch, thenRestart, edited, foreign, misled, saves, dbFaults>>

PageStep(p) ==
    \/ Open(p)
    \/ \E f \in Fields, v \in Text, sent \in Typed, restart \in BOOLEAN : Save(p, f, v, sent, restart)
    \/ PutSettings(p) \/ Refused(p) \/ AskRestart(p)
    \/ \E n \in Secrets : PutSecret(p, n)

Next ==
    \/ LoadSettings \/ Serve \/ Die \/ BootDies
    \/ \E n \in Secrets : LoadSecret(n)
    \/ \E p \in Pages : PageStep(p)

Spec == Init /\ [][Next]_vars

-----------------------------------------------------------------------------
(* Properties *)

TypeOK ==
    /\ stored \in Settings \cup {Unsaved}
    /\ secrets \in SecretTable
    /\ serving \in BOOLEAN
    /\ active \in Configs /\ draft \in Configs
    /\ boot \in Items \cup {"ready", "idle"}
    /\ stage \in [Pages -> Items \cup {"closed", "open", "failed", "saved", "asking", "restarting"}]
    /\ form \in [Pages -> Settings]
    /\ patch \in [Pages -> Patches]
    /\ thenRestart \in [Pages -> BOOLEAN]
    /\ edited \in [Pages -> SUBSET Fields]
    /\ foreign \in [Pages -> SUBSET Items]
    /\ misled \in [Pages -> BOOLEAN]
    /\ saves \in 0..MaxSaves /\ restarts \in 0..MaxRestarts /\ dbFaults \in 0..MaxDbFaults

\* The page reports that it has saved.
ReportsSaved(p) == stage[p] \in {"saved", "asking", "restarting"}

\* The secrets a page has sent and nobody has changed since.
Kept(p) == {n \in Secrets \ foreign[p] : patch[p][n] # Unchanged}

\* When a page says "saved", the tables hold what it shows and what was typed
\* into it, but for what others have written since: whatever failed, died or was
\* tried again on the way.
SavedIsStored ==
    \A p \in Pages : ReportsSaved(p) =>
        /\ "settings" \notin foreign[p] => stored = form[p]
        /\ \A n \in Kept(p) : secrets[n] = patch[p][n]

\* handleAIHealth: the health check tries the key of the table, else the process's.
HealthKey == IF secrets["aiApiKey"] = Blank THEN active.secrets["aiApiKey"] ELSE secrets["aiApiKey"]

\* After a page has saved and has had the process restarted, the process that
\* has taken over runs on what was saved, unless others have saved since or a
\* query of its boot failed; and the key that the health check tries is the one
\* the diagnoses use.
RestartedRunsOnSaved ==
    \A p \in Pages :
        stage[p] = "restarting" /\ boot = "idle" /\ active.failed = {} =>
            /\ "settings" \notin foreign[p] => active.settings = Over(EnvSettings, form[p])
            /\ \A n \in Kept(p) : active.secrets[n] = Over(EnvSecrets, patch[p])[n]
            /\ "aiApiKey" \in Kept(p) => HealthKey = active.secrets["aiApiKey"]

\* The fields that a write of settings changes.
Changed == {f \in Fields : Shown(stored')[f] # Shown(stored)[f]}

\* A save changes the fields that its operator has edited and no other, unless
\* others have saved since the page was loaded, or it was not loaded properly.
EditsOnly ==
    [][\A p \in Pages :
          stage[p] = "settings" /\ stage'[p] # "settings" /\ "settings" \notin foreign[p] /\ ~misled[p]
              => Changed \subseteq edited[p]]_vars

\* Settings.tsx:169 shows an error instead of the form when the settings cannot
\* be loaded.  So the last condition should not be needed.
UneditedStays ==
    [][\A p \in Pages :
          stage[p] = "settings" /\ stage'[p] # "settings" /\ "settings" \notin foreign[p]
              => Changed \subseteq edited[p]]_vars
=============================================================================
