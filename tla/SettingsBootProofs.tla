------------------------- MODULE SettingsBootProofs -------------------------
(* Theorems about SettingsBoot, for any number of pages, fields, saves,      *)
(* restarts and failing queries, and any environment.                        *)
EXTENDS SettingsBoot, TLAPS

-----------------------------------------------------------------------------
(* Lemmas about the operators *)

\* Merging over the environment yields settings.
LEMMA OverSettings ==
    ASSUME NEW read \in Settings
    PROVE  Over(EnvSettings, read) \in Settings
BY SettingsAssumption DEF Over, Settings, Text

\* Merging over the environment yields secrets.
LEMMA OverSecrets ==
    ASSUME NEW read \in SecretTable, NEW n \in Secrets
    PROVE  /\ Over(EnvSecrets, read)[n] \in Text
           /\ Over(EnvSecrets, read)[n] = IF read[n] = Blank THEN EnvSecrets[n] ELSE read[n]
BY SettingsAssumption DEF Over, SecretTable, Text

\* What GetSettings returns is settings, and what was saved when something was.
LEMMA ShownSettings ==
    ASSUME NEW row \in Settings \cup {Unsaved}
    PROVE  Shown(row) \in Settings /\ (row \in Settings => Shown(row) = row)
BY SettingsAssumption DEF Shown

\* A save leaves out exactly the secrets that its patch does not name.
LEMMA RestSkips ==
    ASSUME NEW p \in Pages, NEW item \in Items
    PROVE  /\ Rest(p, item) \in {"aiApiKey", "gitToken", "asking", "saved"}
           /\ Rest(p, item) \in Secrets => patch[p][Rest(p, item)] # Unchanged
           /\ item = "aiApiKey" => Rest(p, item) # "aiApiKey"
           /\ item = "gitToken" => Rest(p, item) \in {"asking", "saved"}
           /\ item = "settings" /\ Rest(p, item) # "aiApiKey" => patch[p]["aiApiKey"] = Unchanged
           /\ item # "gitToken" /\ Rest(p, item) \in {"asking", "saved"} => patch[p]["gitToken"] = Unchanged
BY DEF Rest, Items, Secrets

-----------------------------------------------------------------------------
(* Types *)

\* A page that is about to write a secret has one to write.
NamedInv == \A p \in Pages : stage[p] \in Secrets => patch[p][stage[p]] # Unchanged

TypeInv == TypeOK /\ NamedInv

LEMMA TypeInit == ASSUME Init PROVE TypeInv
<1>1. Environment \in Configs /\ NoSecrets \in Patches
  BY SettingsAssumption DEF Environment, Configs, NoSecrets, Patches
<1>2. secrets \in SecretTable BY DEF Init, SecretTable, Text
<1>3. 0 \in 0..MaxSaves /\ 0 \in 0..MaxRestarts /\ 0 \in 0..MaxDbFaults BY SettingsAssumption
<1>4. Defaults \in Settings BY SettingsAssumption
<1>5. NamedInv BY DEF Init, NamedInv, Secrets
<1> QED BY <1>1, <1>2, <1>3, <1>4, <1>5 DEF Init, TypeInv, TypeOK, Items

\* The page's next stage keeps the types.
LEMMA ProceedTyped ==
    ASSUME TypeInv, NEW p \in Pages, NEW item \in Items, Proceed(p, item) \/ GiveUp(p), UNCHANGED patch
    PROVE  /\ stage' \in [Pages -> Items \cup {"closed", "open", "failed", "saved", "asking", "restarting"}]
           /\ NamedInv'
BY RestSkips DEF TypeInv, TypeOK, NamedInv, Proceed, GiveUp, Items, Secrets

\* A take-over or a death makes some saves fail and touches no other page.
LEMMA CutOffTyped ==
    ASSUME TypeInv, CutOff, UNCHANGED patch
    PROVE  /\ stage' \in [Pages -> Items \cup {"closed", "open", "failed", "saved", "asking", "restarting"}]
           /\ NamedInv'
           /\ \A p \in Pages : stage'[p] = stage[p] \/ stage'[p] = "failed"
BY DEF TypeInv, TypeOK, NamedInv, CutOff, Saving, Items, Secrets

LEMMA TypeStep == ASSUME TypeInv, [Next]_vars PROVE TypeInv'
<1> USE SettingsAssumption DEF TypeInv, TypeOK
<1>e. Environment \in Configs /\ NoSecrets \in Patches
  BY DEF Environment, Configs, NoSecrets, Patches
<1>1. CASE LoadSettings
  <2>1. Over(EnvSettings, Shown(stored)) \in Settings /\ Over(EnvSettings, Defaults) \in Settings
    BY OverSettings, ShownSettings
  <2>2. ASSUME NEW read \in Settings, NEW failed \in SUBSET Items,
               draft' = [draft EXCEPT !.settings = read, !.failed = failed]
        PROVE  draft' \in Configs
    BY <2>2 DEF Configs
  <2>3. draft.failed \cup {boot} \in SUBSET Items /\ draft.failed \in SUBSET Items
    BY <1>1 DEF LoadSettings, Configs, Items
  <2>4. draft' \in Configs
    <3>1. CASE draft' = [draft EXCEPT !.settings = Over(EnvSettings, Shown(stored))]
      BY <2>1, <3>1 DEF Configs
    <3>2. CASE draft' = [draft EXCEPT !.settings = Over(EnvSettings, Defaults), !.failed = @ \cup {boot}]
      BY <2>1, <2>2, <2>3, <3>2
    <3> QED BY <1>1, <3>1, <3>2 DEF LoadSettings
  <2> QED BY <1>1, <2>4 DEF LoadSettings, NamedInv, Items, Secrets, DbFault, dbVars, pageVars
<1>2. ASSUME NEW n \in Secrets, LoadSecret(n) PROVE TypeInv'
  <2>1. Over(EnvSecrets, secrets)[n] \in Text BY OverSecrets
  <2> QED BY <1>2, <2>1 DEF LoadSecret, NamedInv, Configs, SecretTable, Items, Secrets, DbFault, dbVars, pageVars
<1>3. CASE Serve
  BY <1>3, <1>e, CutOffTyped DEF Serve, dbVars
<1>4. CASE Die
  <2>1. draft' \in Configs /\ boot' \in Items \cup {"ready", "idle"}
    BY <1>4, <1>e DEF Die, StartBoot, Items
  <2>2. restarts' \in 0..MaxRestarts BY <1>4 DEF Die, Again
  <2>3. CutOff /\ UNCHANGED patch BY <1>4 DEF Die
  <2> QED BY <1>4, <2>1, <2>2, <2>3, CutOffTyped DEF Die, dbVars
<1>5. CASE BootDies
  BY <1>5, <1>e DEF BootDies, Again, StartBoot, NamedInv, Items, dbVars, pageVars
<1>6. ASSUME NEW p \in Pages, Open(p) PROVE TypeInv'
  <2>1. PICK settings \in Settings, b \in BOOLEAN : Show(p, settings, b) /\ (DbFault \/ UNCHANGED dbFaults)
    BY <1>6, ShownSettings DEF Open
  <2> QED BY <2>1, <1>e DEF Show, NamedInv, Items, Secrets, DbFault, dbVars, bootVars
<1>7. ASSUME NEW p \in Pages, NEW f \in Fields, NEW v \in Text, NEW sent \in Typed, NEW restart \in BOOLEAN,
             Save(p, f, v, sent, restart)
      PROVE  TypeInv'
  BY <1>7 DEF Save, NamedInv, Settings, Items, Secrets, dbVars, bootVars
<1>8. ASSUME NEW p \in Pages, PutSettings(p) PROVE TypeInv'
  <2>1. "settings" \in Items BY DEF Items
  <2>2. foreign' \in [Pages -> SUBSET Items]
    BY <1>8, <2>1 DEF PutSettings, Applied
  <2>3. Proceed(p, "settings") \/ GiveUp(p) BY <1>8 DEF PutSettings
  <2>4. stored' \in Settings \cup {Unsaved} BY <1>8 DEF PutSettings
  <2>5. UNCHANGED patch BY <1>8 DEF PutSettings
  <2>6. edited' \in [Pages -> SUBSET Fields] /\ misled' \in [Pages -> BOOLEAN]
    BY <1>8 DEF PutSettings
  <2>7. dbFaults' \in 0..MaxDbFaults BY <1>8 DEF PutSettings, DbFault
  <2>8. /\ stage' \in [Pages -> Items \cup {"closed", "open", "failed", "saved", "asking", "restarting"}]
        /\ NamedInv'
    BY <2>1, <2>3, <2>5, ProceedTyped
  <2> QED BY <1>8, <2>2, <2>4, <2>6, <2>7, <2>8 DEF PutSettings, bootVars
<1>9. ASSUME NEW p \in Pages, NEW n \in Secrets, PutSecret(p, n) PROVE TypeInv'
  <2>1. n \in Items /\ patch[p][n] \in Text
    BY <1>9 DEF PutSecret, NamedInv, Items, Patches
  <2>2. foreign' \in [Pages -> SUBSET Items]
    BY <1>9, <2>1 DEF PutSecret, Applied
  <2>3. Proceed(p, n) \/ GiveUp(p) BY <1>9 DEF PutSecret
  <2>4. secrets' \in SecretTable BY <1>9, <2>1 DEF PutSecret, SecretTable
  <2>5. UNCHANGED patch BY <1>9 DEF PutSecret
  <2> QED BY <1>9, <2>1, <2>2, <2>3, <2>4, <2>5, ProceedTyped DEF PutSecret, DbFault, bootVars
<1>10. ASSUME NEW p \in Pages, Refused(p) PROVE TypeInv'
  <2>1. UNCHANGED patch /\ GiveUp(p) BY <1>10 DEF Refused
  <2> QED BY <1>10, <2>1 DEF Refused, GiveUp, NamedInv, Items, Secrets, dbVars, bootVars
<1>11. ASSUME NEW p \in Pages, AskRestart(p) PROVE TypeInv'
  BY <1>11, <1>e DEF AskRestart, Again, StartBoot, NamedInv, Items, Secrets, dbVars
<1>12. CASE UNCHANGED vars
  BY <1>12 DEF vars, dbVars, bootVars, pageVars, NamedInv
<1> QED BY <1>1, <1>2, <1>3, <1>4, <1>5, <1>6, <1>7, <1>8, <1>9, <1>10, <1>11, <1>12 DEF Next, PageStep

LEMMA TypeInvariant == Spec => []TypeInv
BY TypeInit, TypeStep, PTL DEF Spec

\* Nothing is stored that is not a setting or a secret; in particular a secret
\* that a patch does not name is not written.
THEOREM SettingsTypes == Spec => []TypeOK
BY TypeInvariant, PTL DEF TypeInv

-----------------------------------------------------------------------------
(* Saving.  SavedIsStored is not inductive: what "saved" promises has been    *)
(* true, item by item, since the page wrote it.                               *)

\* The items that a save has behind it.
Past(p, item) ==
    CASE item = "settings" -> stage[p] \in Secrets \cup {"asking", "saved", "restarting"}
      [] item = "aiApiKey" -> stage[p] \in {"gitToken", "asking", "saved", "restarting"}
      [] item = "gitToken" -> stage[p] \in {"asking", "saved", "restarting"}

SaveInv ==
    \A p \in Pages :
        /\ Past(p, "settings") /\ "settings" \notin foreign[p] => stored = form[p]
        /\ \A n \in Kept(p) : Past(p, n) => secrets[n] = patch[p][n]

\* A form differs from the table only where its operator has edited it.
FormsInv ==
    \A p \in Pages :
        "settings" \notin foreign[p] /\ ~misled[p] =>
            \A f \in Fields \ edited[p] : form[p][f] = Shown(stored)[f]

LEMMA SaveInit == ASSUME Init PROVE SaveInv /\ FormsInv
<1>1. SaveInv BY DEF Init, SaveInv, Past, Kept, Secrets
<1>2. \A p \in Pages : form[p] = Shown(stored) BY DEF Init, Shown
<1> QED BY <1>1, <1>2 DEF FormsInv

\* Steps that write nothing, at most stop a save or finish one.
Still ==
    /\ UNCHANGED <<dbVars, form, patch, foreign>>
    /\ \A p \in Pages :
          \/ stage'[p] \in {stage[p], "failed"}
          \/ stage[p] = "asking" /\ stage'[p] \in {"saved", "restarting"}

LEMMA StillSteps ==
    ASSUME TypeInv, [Next]_vars
    PROVE  \/ Still /\ UNCHANGED <<edited, misled>>
           \/ \E p \in Pages : Open(p) \/ PutSettings(p)
           \/ \E p \in Pages, f \in Fields, v \in Text, sent \in Typed, restart \in BOOLEAN :
                 Save(p, f, v, sent, restart)
           \/ \E p \in Pages, n \in Secrets : PutSecret(p, n)
<1> USE DEF Still
<1>1. CASE LoadSettings BY <1>1 DEF LoadSettings, dbVars, pageVars
<1>2. ASSUME NEW n \in Secrets, LoadSecret(n) PROVE Still /\ UNCHANGED <<edited, misled>>
  BY <1>2 DEF LoadSecret, dbVars, pageVars
<1>3. CASE Serve BY <1>3, CutOffTyped DEF Serve, dbVars
<1>4. CASE Die BY <1>4, CutOffTyped DEF Die, dbVars
<1>5. CASE BootDies BY <1>5 DEF BootDies, dbVars, pageVars
<1>6. ASSUME NEW p \in Pages, Refused(p) PROVE Still /\ UNCHANGED <<edited, misled>>
  BY <1>6 DEF Refused, GiveUp, dbVars, TypeInv, TypeOK
<1>7. ASSUME NEW p \in Pages, AskRestart(p) PROVE Still /\ UNCHANGED <<edited, misled>>
  BY <1>7 DEF AskRestart, dbVars, TypeInv, TypeOK
<1>8. CASE UNCHANGED vars BY <1>8 DEF vars, pageVars
<1> QED BY <1>1, <1>2, <1>3, <1>4, <1>5, <1>6, <1>7, <1>8 DEF Next, PageStep

LEMMA SaveInvStep == ASSUME TypeInv, SaveInv, [Next]_vars PROVE SaveInv'
<1> USE DEF SaveInv, Kept
<1>1. CASE Still
  BY <1>1 DEF Still, dbVars, Past, Secrets
<1>2. ASSUME NEW p \in Pages, Open(p) PROVE SaveInv'
  <2>1. PICK settings \in Settings, b \in BOOLEAN : Show(p, settings, b)
    BY <1>2, ShownSettings, SettingsAssumption DEF Open, TypeInv, TypeOK
  <2>2. ~Past(p, "settings")' /\ \A n \in Secrets : ~Past(p, n)'
    BY <2>1 DEF Show, Past, Secrets, TypeInv, TypeOK
  <2>3. ASSUME NEW q \in Pages, q # p
        PROVE  /\ \A item \in Items : Past(q, item)' = Past(q, item)
               /\ form'[q] = form[q] /\ patch'[q] = patch[q] /\ foreign'[q] = foreign[q]
    BY <2>1, <2>3 DEF Show, Past, Items, Secrets, TypeInv, TypeOK
  <2>4. UNCHANGED <<stored, secrets>> BY <2>1 DEF Show, dbVars
  <2>5. ASSUME NEW q \in Pages, q # p
        PROVE  /\ Past(q, "settings")' /\ "settings" \notin foreign'[q] => stored' = form'[q]
               /\ \A n \in Kept(q)' : Past(q, n)' => secrets'[n] = patch'[q][n]
    BY <2>3, <2>4, <2>5 DEF Items
  <2> QED BY <2>2, <2>5
<1>3. ASSUME NEW p \in Pages, NEW f \in Fields, NEW v \in Text, NEW sent \in Typed, NEW restart \in BOOLEAN,
             Save(p, f, v, sent, restart)
      PROVE  SaveInv'
  <2>2. ~Past(p, "settings")' /\ \A n \in Secrets : ~Past(p, n)'
    BY <1>3 DEF Save, Past, Secrets, TypeInv, TypeOK
  <2>3. ASSUME NEW q \in Pages, q # p
        PROVE  /\ \A item \in Items : Past(q, item)' = Past(q, item)
               /\ form'[q] = form[q] /\ patch'[q] = patch[q] /\ foreign'[q] = foreign[q]
    BY <1>3, <2>3 DEF Save, Past, Items, Secrets, TypeInv, TypeOK
  <2> QED BY <1>3, <2>2, <2>3 DEF Save, dbVars, Items
<1>4. ASSUME NEW p \in Pages, PutSettings(p) PROVE SaveInv'
  <2>1. UNCHANGED <<secrets, form, patch>> BY <1>4 DEF PutSettings
  <2>2. "settings" \in Items /\ "settings" \notin Secrets BY DEF Items, Secrets
  <2>3. \A q \in Pages, n \in Secrets : n \in foreign[q] <=> n \in foreign'[q]
    BY <1>4, <2>2 DEF PutSettings, Applied, TypeInv, TypeOK
  <2>4. \A q \in Pages \ {p} : stage'[q] = stage[q]
    BY <1>4 DEF PutSettings, Proceed, GiveUp, TypeInv, TypeOK
  <2>5. stage'[p] = "failed" \/ (stage'[p] = Rest(p, "settings") /\ stored' = form[p])
    BY <1>4 DEF PutSettings, Proceed, GiveUp, TypeInv, TypeOK
  <2>6. \A q \in Pages \ {p} : "settings" \notin foreign'[q] => "settings" \notin foreign[q] /\ stored' = stored
    BY <1>4 DEF PutSettings, Applied
  <2>7. \A n \in Kept(p)' : ~Past(p, n)'
    BY <2>1, <2>2, <2>5, RestSkips DEF Past, Secrets
  <2>8. Past(p, "settings")' => stored' = form'[p]
    BY <2>1, <2>5 DEF Past, Secrets
  <2> QED BY <2>1, <2>3, <2>4, <2>6, <2>7, <2>8 DEF Past
<1>5. ASSUME NEW p \in Pages, NEW n \in Secrets, PutSecret(p, n) PROVE SaveInv'
  <2>1. UNCHANGED <<stored, form, patch>> BY <1>5 DEF PutSecret
  <2>2. n \in Items /\ n # "settings" BY DEF Items, Secrets
  <2>3. \A q \in Pages : "settings" \in foreign[q] <=> "settings" \in foreign'[q]
    BY <1>5, <2>2 DEF PutSecret, Applied, TypeInv, TypeOK
  <2>4. \A q \in Pages \ {p} : stage'[q] = stage[q]
    BY <1>5 DEF PutSecret, Proceed, GiveUp, TypeInv, TypeOK
  <2>5. stage'[p] = "failed" \/ (stage'[p] = Rest(p, n) /\ secrets'[n] = patch[p][n])
    BY <1>5 DEF PutSecret, Proceed, GiveUp, TypeInv, TypeOK, SecretTable
  <2>6. \A q \in Pages, m \in Secrets : m # n => (m \in foreign[q] <=> m \in foreign'[q]) /\ secrets'[m] = secrets[m]
    BY <1>5, <2>2 DEF PutSecret, Applied, TypeInv, TypeOK, SecretTable
  <2>7. \A q \in Pages \ {p} : n \notin foreign'[q] => n \notin foreign[q] /\ secrets' = secrets
    BY <1>5 DEF PutSecret, Applied
  <2>8. Past(p, "settings") BY <1>5 DEF PutSecret, Past
  <2>9. ASSUME NEW m \in Kept(p)', Past(p, m)', m # n
        PROVE  Past(p, m)
    <3>1. stage[p] = n BY <1>5 DEF PutSecret
    <3> QED BY <2>1, <2>5, <2>9, <3>1, <2>2, RestSkips DEF Past, Secrets
  <2>10. ASSUME NEW q \in Pages
         PROVE  /\ Past(q, "settings")' /\ "settings" \notin foreign'[q] => stored' = form'[q]
                /\ \A m \in Kept(q)' : Past(q, m)' => secrets'[m] = patch'[q][m]
    <3>1. CASE q = p
      <4>1. ASSUME NEW m \in Kept(p)', Past(p, m)' PROVE secrets'[m] = patch'[p][m]
        <5>1. CASE m = n BY <2>1, <2>5, <4>1, <5>1 DEF Past, Secrets
        <5>2. CASE m # n BY <2>1, <2>6, <2>9, <4>1, <5>2
        <5> QED BY <5>1, <5>2
      <4> QED BY <2>1, <2>3, <2>8, <3>1, <4>1
    <3>2. CASE q # p
      <4>1. \A item \in Items : Past(q, item)' = Past(q, item) BY <2>4, <3>2 DEF Past
      <4>2. ASSUME NEW m \in Kept(q)', Past(q, m)' PROVE secrets'[m] = patch'[q][m]
        <5>1. m \in Kept(q) /\ secrets'[m] = secrets[m]
          <6>1. CASE m = n BY <2>1, <2>7, <3>2, <4>2, <6>1
          <6>2. CASE m # n BY <2>1, <2>6, <4>2, <6>2
          <6> QED BY <6>1, <6>2
        <5> QED BY <2>1, <4>1, <4>2, <5>1 DEF Items
      <4> QED BY <2>1, <2>3, <4>1, <4>2 DEF Items
    <3> QED BY <3>1, <3>2
  <2> QED BY <2>10
<1> QED BY <1>1, <1>2, <1>3, <1>4, <1>5, StillSteps

LEMMA FormsInvStep == ASSUME TypeInv, FormsInv, [Next]_vars PROVE FormsInv'
<1> USE DEF FormsInv
<1>1. CASE Still /\ UNCHANGED <<edited, misled>>
  BY <1>1 DEF Still, dbVars
<1>2. ASSUME NEW p \in Pages, Open(p) PROVE FormsInv'
  <2>1. Show(p, Shown(stored), TRUE) \/ Show(p, Defaults, FALSE)
    BY <1>2 DEF Open
  <2>2. stored' = stored BY <2>1 DEF Show, dbVars
  <2>3. misled'[p] \/ form'[p] = Shown(stored) BY <2>1 DEF Show, TypeInv, TypeOK
  <2>4. ASSUME NEW q \in Pages, q # p
        PROVE  /\ form'[q] = form[q] /\ edited'[q] = edited[q]
               /\ foreign'[q] = foreign[q] /\ misled'[q] = misled[q]
    BY <2>1, <2>4 DEF Show, TypeInv, TypeOK
  <2> QED BY <2>2, <2>3, <2>4
<1>3. ASSUME NEW p \in Pages, NEW f \in Fields, NEW v \in Text, NEW sent \in Typed, NEW restart \in BOOLEAN,
             Save(p, f, v, sent, restart)
      PROVE  FormsInv'
  BY <1>3 DEF Save, dbVars, TypeInv, TypeOK, Settings
<1>4. ASSUME NEW p \in Pages, PutSettings(p) PROVE FormsInv'
  <2>1. form' = form BY <1>4 DEF PutSettings
  <2>2. CASE UNCHANGED <<stored, foreign, edited, misled>> BY <2>1, <2>2
  <2>3. CASE stored' = form[p] /\ Applied(p, "settings")
    <3>1. form[p] \in Settings BY DEF TypeInv, TypeOK
    <3>2. Shown(stored') = form'[p] BY <2>1, <2>3, <3>1, ShownSettings
    <3>3. \A q \in Pages \ {p} : "settings" \in foreign'[q] BY <2>3 DEF Applied
    <3> QED BY <3>2, <3>3
  <2> QED BY <1>4, <2>2, <2>3 DEF PutSettings
<1>5. ASSUME NEW p \in Pages, NEW n \in Secrets, PutSecret(p, n) PROVE FormsInv'
  <2>1. n # "settings" BY DEF Secrets
  <2>2. \A q \in Pages : "settings" \in foreign[q] <=> "settings" \in foreign'[q]
    BY <1>5, <2>1 DEF PutSecret, Applied
  <2> QED BY <1>5, <2>2 DEF PutSecret
<1> QED BY <1>1, <1>2, <1>3, <1>4, <1>5, StillSteps

LEMMA SaveInvariant == Spec => [](TypeInv /\ SaveInv /\ FormsInv)
BY TypeInit, TypeStep, SaveInit, SaveInvStep, FormsInvStep, PTL DEF Spec

\* A page that reports "saved" has its settings and its secrets in the tables,
\* but for what others have written since.
THEOREM SavedStays == Spec => []SavedIsStored
<1>1. SaveInv => SavedIsStored
  BY DEF SaveInv, SavedIsStored, ReportsSaved, Kept, Past, Secrets
<1> QED BY <1>1, SaveInvariant, PTL

\* A save from a page that was loaded properly changes only what was edited.
THEOREM SavesOnlyEdits == Spec => EditsOnly
<1> DEFINE Kept1(p) ==
      stage[p] = "settings" /\ stage'[p] # "settings" /\ "settings" \notin foreign[p] /\ ~misled[p]
          => Changed \subseteq edited[p]
<1>1. ASSUME TypeInv, FormsInv, [Next]_vars, NEW p \in Pages PROVE Kept1(p)
  <2>1. CASE stored' = stored BY <2>1 DEF Changed
  <2>2. ASSUME NEW q \in Pages, PutSettings(q), stored' # stored PROVE Kept1(p)
    <3>1. CASE q = p
      <4>1. stored' = form[p] /\ form[p] \in Settings BY <1>1, <2>2, <3>1 DEF PutSettings, TypeInv, TypeOK
      <4>2. Shown(stored') = form[p] BY <4>1, ShownSettings
      <4> QED BY <1>1, <4>2 DEF FormsInv, Changed
    <3>2. CASE q # p
      BY <1>1, <2>2, <3>2 DEF PutSettings, Proceed, GiveUp, TypeInv, TypeOK
    <3> QED BY <3>1, <3>2
  <2> QED BY <1>1, <2>1, <2>2, StillSteps DEF Still, Open, Show, Save, PutSecret, dbVars
<1>2. TypeInv /\ SaveInv /\ FormsInv /\ [Next]_vars => [\A p \in Pages : Kept1(p)]_vars
  BY <1>1
<1> QED BY <1>2, SaveInvariant, PTL DEF Spec, EditsOnly

-----------------------------------------------------------------------------
(* Booting.  A boot that a page has asked for reads after the page wrote.     *)

\* The items that the boot has read.
Read(item) ==
    CASE item = "settings" -> boot \in {"aiApiKey", "gitToken", "ready"}
      [] item = "aiApiKey" -> boot \in {"gitToken", "ready"}
      [] item = "gitToken" -> boot = "ready"

\* A configuration has what a page saved.
HasSaved(config, p) ==
    /\ "settings" \notin foreign[p] \cup config.failed => config.settings = Over(EnvSettings, form[p])
    /\ \A n \in Kept(p) \ config.failed : config.secrets[n] = Over(EnvSecrets, patch[p])[n]

DraftHasSaved(p) ==
    /\ Read("settings") /\ "settings" \notin foreign[p] \cup draft.failed =>
          draft.settings = Over(EnvSettings, form[p])
    /\ \A n \in Kept(p) \ draft.failed : Read(n) => draft.secrets[n] = Over(EnvSecrets, patch[p])[n]

BootInv ==
    \A p \in Pages : stage[p] = "restarting" =>
        DraftHasSaved(p) /\ (boot = "idle" => HasSaved(active, p))

LEMMA BootInit == ASSUME Init PROVE BootInv
BY DEF Init, BootInv

\* Reading the settings gives a page that waits for its restart what it saved.
LEMMA SettingsRead ==
    ASSUME TypeInv, SaveInv, BootInv, LoadSettings
    PROVE  BootInv'
<1> SUFFICES ASSUME NEW p \in Pages, stage[p] = "restarting"
             PROVE  DraftHasSaved(p)' /\ boot' # "idle"
  BY DEF LoadSettings, BootInv, pageVars
<1>1. boot' = "aiApiKey" /\ UNCHANGED <<stored, form, patch, foreign>>
  BY DEF LoadSettings, dbVars, pageVars
<1>2. "settings" \notin foreign[p] => Shown(stored) = form[p]
  <2>1. form[p] \in Settings BY DEF TypeInv, TypeOK
  <2> QED BY <2>1, ShownSettings DEF SaveInv, Past
<1>3. \/ draft'.settings = Over(EnvSettings, Shown(stored))
      \/ "settings" \in draft'.failed
  <2>1. draft \in [settings : Settings, secrets : SecretTable, failed : SUBSET Items]
    BY DEF TypeInv, TypeOK, Configs
  <2>2. CASE draft' = [draft EXCEPT !.settings = Over(EnvSettings, Shown(stored))]
    BY <2>1, <2>2
  <2>3. CASE draft' = [draft EXCEPT !.settings = Over(EnvSettings, Defaults), !.failed = @ \cup {boot}]
    <3>1. draft'.failed = draft.failed \cup {boot} BY <2>1, <2>3
    <3> QED BY <3>1 DEF LoadSettings
  <2> QED BY <2>2, <2>3 DEF LoadSettings
<1>4. \A n \in Secrets : ~Read(n)' BY <1>1 DEF Read, Secrets
<1> QED BY <1>1, <1>2, <1>3, <1>4 DEF DraftHasSaved, Kept

\* So does reading a secret.
LEMMA SecretRead ==
    ASSUME TypeInv, SaveInv, BootInv, NEW n \in Secrets, LoadSecret(n)
    PROVE  BootInv'
<1> SUFFICES ASSUME NEW p \in Pages, stage[p] = "restarting"
             PROVE  DraftHasSaved(p)' /\ boot' # "idle"
  BY DEF LoadSecret, BootInv, pageVars
<1>1. boot = n /\ boot' = (IF n = "aiApiKey" THEN "gitToken" ELSE "ready")
  BY DEF LoadSecret
<1>2. UNCHANGED <<secrets, form, patch, foreign, stage>>
  BY DEF LoadSecret, dbVars, pageVars
<1>3. /\ draft'.settings = draft.settings
      /\ draft.failed \subseteq draft'.failed /\ draft'.failed \subseteq draft.failed \cup {n}
      /\ \A m \in Secrets : m # n => draft'.secrets[m] = draft.secrets[m]
      /\ draft'.secrets[n] = Over(EnvSecrets, secrets)[n] \/ n \in draft'.failed
  BY DEF LoadSecret, TypeInv, TypeOK, Configs, SecretTable
<1>4. DraftHasSaved(p) BY DEF BootInv
<1>5. Kept(p)' = Kept(p) BY <1>2 DEF Kept
<1>6. n \in Kept(p) => Over(EnvSecrets, secrets)[n] = Over(EnvSecrets, patch[p])[n]
  <2>1. n \in Kept(p) => secrets[n] = patch[p][n] BY DEF SaveInv, Past, Secrets
  <2> QED BY <2>1, SettingsAssumption DEF Over, SecretTable
<1>7. Read("settings") /\ (\A m \in Secrets : m # n => (Read(m)' <=> Read(m)))
  BY <1>1 DEF Read, Secrets
<1>8. n # "settings" /\ boot' # "idle" BY <1>1 DEF Secrets
<1>9. \A m \in Kept(p)' \ draft'.failed : Read(m)' => draft'.secrets[m] = Over(EnvSecrets, patch'[p])[m]
  BY <1>2, <1>3, <1>4, <1>5, <1>6, <1>7 DEF DraftHasSaved, Kept
<1> QED BY <1>2, <1>3, <1>4, <1>7, <1>8, <1>9 DEF DraftHasSaved

LEMMA BootInvStep == ASSUME TypeInv, SaveInv, BootInv, [Next]_vars PROVE BootInv'
<1>1. CASE LoadSettings BY <1>1, SettingsRead
<1>2. ASSUME NEW n \in Secrets, LoadSecret(n) PROVE BootInv' BY <1>2, SecretRead
\* Where a boot begins nothing has been read.
<1>3. ASSUME StartBoot PROVE BootInv'
  BY <1>3 DEF StartBoot, BootInv, DraftHasSaved, Read, Secrets, Kept
<1>4. CASE Serve
  <2> SUFFICES ASSUME NEW p \in Pages, stage'[p] = "restarting"
               PROVE  DraftHasSaved(p)' /\ (boot' = "idle" => HasSaved(active, p)')
    BY DEF BootInv
  <2>1. stage[p] = "restarting"
    BY <1>4, CutOffTyped DEF Serve
  <2>2. boot = "ready" /\ boot' = "idle" /\ active' = draft /\ UNCHANGED <<form, patch, foreign>>
    BY <1>4 DEF Serve
  <2>3. \A item \in Items : Read(item) /\ ~Read(item)' BY <2>2 DEF Read, Items, Secrets
  <2>4. DraftHasSaved(p) BY <2>1 DEF BootInv
  <2>5. DraftHasSaved(p)' BY <2>3 DEF DraftHasSaved, Items, Kept
  <2>6. HasSaved(active, p)' BY <2>2, <2>3, <2>4 DEF HasSaved, DraftHasSaved, Items, Kept
  <2> QED BY <2>5, <2>6
<1>5. CASE Die
  <2>1. CASE boot = "idle" BY <1>3, <1>5, <2>1 DEF Die
  <2>2. CASE boot # "idle"
    <3>1. UNCHANGED <<boot, draft, form, patch, foreign>> BY <1>5, <2>2 DEF Die
    <3>2. \A p \in Pages : stage'[p] = "restarting" => stage[p] = "restarting"
      BY <1>5, CutOffTyped DEF Die
    <3> QED BY <2>2, <3>1, <3>2 DEF BootInv, DraftHasSaved, Read, Kept
  <2> QED BY <2>1, <2>2
<1>6. CASE BootDies BY <1>3, <1>6 DEF BootDies
\* Steps of pages that leave the boot alone, and the others' forms and patches.
<1>7. ASSUME NEW p \in Pages, UNCHANGED <<boot, draft, active>>, stage'[p] # "restarting",
             \A q \in Pages \ {p} : /\ stage'[q] = stage[q]
                                    /\ form'[q] = form[q] /\ patch'[q] = patch[q]
                                    /\ foreign[q] \subseteq foreign'[q]
      PROVE  BootInv'
  <2> SUFFICES ASSUME NEW q \in Pages \ {p}, stage'[q] = "restarting"
               PROVE  DraftHasSaved(q)' /\ (boot' = "idle" => HasSaved(active, q)')
    BY <1>7 DEF BootInv
  <2>1. DraftHasSaved(q) /\ (boot = "idle" => HasSaved(active, q)) BY <1>7 DEF BootInv
  <2>2. Kept(q)' \subseteq Kept(q) BY <1>7 DEF Kept
  <2>3. \A item \in Items : Read(item)' = Read(item) BY <1>7 DEF Read
  <2>4. DraftHasSaved(q)' BY <1>7, <2>1, <2>2, <2>3 DEF DraftHasSaved, Items, Kept
  <2>5. boot = "idle" => HasSaved(active, q)' BY <1>7, <2>1, <2>2 DEF HasSaved
  <2> QED BY <1>7, <2>4, <2>5
<1>8. ASSUME NEW p \in Pages, Open(p) PROVE BootInv'
  <2>1. Show(p, Shown(stored), TRUE) \/ Show(p, Defaults, FALSE) BY <1>8 DEF Open
  <2> QED BY <1>7, <2>1 DEF Show, bootVars, TypeInv, TypeOK
<1>9. ASSUME NEW p \in Pages, NEW f \in Fields, NEW v \in Text, NEW sent \in Typed, NEW restart \in BOOLEAN,
             Save(p, f, v, sent, restart)
      PROVE  BootInv'
  BY <1>7, <1>9 DEF Save, bootVars, TypeInv, TypeOK
<1>10. ASSUME NEW p \in Pages, NEW item \in Items, Proceed(p, item) \/ GiveUp(p),
              Applied(p, item) \/ UNCHANGED foreign, UNCHANGED <<bootVars, form, patch>>
       PROVE  BootInv'
  <2>1. stage'[p] # "restarting" /\ \A q \in Pages \ {p} : stage'[q] = stage[q]
    BY <1>10, RestSkips DEF Proceed, GiveUp, TypeInv, TypeOK
  <2>2. \A q \in Pages \ {p} : foreign[q] \subseteq foreign'[q] BY <1>10 DEF Applied
  <2> QED BY <1>7, <1>10, <2>1, <2>2 DEF bootVars
<1>11. ASSUME NEW p \in Pages, PutSettings(p) PROVE BootInv'
  BY <1>10, <1>11 DEF PutSettings, Items
<1>12. ASSUME NEW p \in Pages, NEW n \in Secrets, PutSecret(p, n) PROVE BootInv'
  <2>1. n \in Items BY DEF Items
  <2> QED BY <1>10, <1>12, <2>1 DEF PutSecret
<1>13. ASSUME NEW p \in Pages, Refused(p) PROVE BootInv'
  BY <1>7, <1>13 DEF Refused, GiveUp, bootVars, TypeInv, TypeOK
<1>14. ASSUME NEW p \in Pages, AskRestart(p) PROVE BootInv'
  <2>1. CASE StartBoot BY <1>3, <2>1
  <2>2. CASE stage' = [stage EXCEPT ![p] = "saved"] /\ UNCHANGED <<boot, draft>>
    BY <1>7, <1>14, <2>2 DEF AskRestart, TypeInv, TypeOK
  <2> QED BY <1>14, <2>1, <2>2 DEF AskRestart
<1>15. CASE UNCHANGED vars
  BY <1>15 DEF vars, bootVars, pageVars, BootInv, DraftHasSaved, HasSaved, Read, Kept
<1> QED BY <1>1, <1>2, <1>4, <1>5, <1>6, <1>8, <1>9, <1>11, <1>12, <1>13, <1>14, <1>15 DEF Next, PageStep

\* The process that takes over after a page has saved and asked for a restart
\* runs on what the page saved, and its health check tries the key it uses.
THEOREM RestartedOnSaved == Spec => []RestartedRunsOnSaved
<1>1. TypeInv /\ SaveInv /\ BootInv => RestartedRunsOnSaved
  <2> SUFFICES ASSUME TypeInv, SaveInv, BootInv, NEW p \in Pages,
                      stage[p] = "restarting", boot = "idle", active.failed = {}
               PROVE  /\ "settings" \notin foreign[p] => active.settings = Over(EnvSettings, form[p])
                      /\ \A n \in Kept(p) : active.secrets[n] = Over(EnvSecrets, patch[p])[n]
                      /\ "aiApiKey" \in Kept(p) => HealthKey = active.secrets["aiApiKey"]
    BY DEF RestartedRunsOnSaved
  <2>1. HasSaved(active, p) BY DEF BootInv
  <2>2. ASSUME "aiApiKey" \in Kept(p) PROVE HealthKey = active.secrets["aiApiKey"]
    <3>1. secrets["aiApiKey"] = patch[p]["aiApiKey"] BY <2>2 DEF SaveInv, Past
    <3>2. active.secrets["aiApiKey"] = Over(EnvSecrets, patch[p])["aiApiKey"] BY <2>1, <2>2 DEF HasSaved
    <3>3. "aiApiKey" \in DOMAIN EnvSecrets BY SettingsAssumption DEF SecretTable, Secrets
    <3> QED BY <3>1, <3>2, <3>3 DEF HealthKey, Over
  <2> QED BY <2>1, <2>2 DEF HasSaved
<1>2. Spec => [](TypeInv /\ SaveInv /\ BootInv)
  BY SaveInvariant, BootInit, BootInvStep, PTL DEF Spec
<1> QED BY <1>1, <1>2, PTL
=============================================================================
