------------------------ MODULE ProviderClients_proofs ------------------------
(***************************************************************************)
(* Invariants of ProviderClients, for any number of administrators' calls, *)
(* requests, applications, texts and faults.                               *)
(***************************************************************************)
EXTENDS ProviderClients, SequenceTheorems, TLAPS

\* What a patch may hold.
Patches == Settings(group, Texts \cup {Null})

CallRecord == [pc : CallStates, scope : Scopes, row : Rows, snap : Tables]

ClientRecord == [cfg : GroupValues, state : {"pending", "ready", "rejected"}]

UseRecord(n) ==
  [pc : {"idle", "await", "exec", "done"},
   kind : {"none", "order", "notify", "active", "preview"}, scope : Scopes,
   value : GroupValues, asked : GroupValues, client : 0..n, verify : BOOLEAN,
   result : {"none", "UNAVAILABLE", "UNSUPPORTED", "FAILED", "SUCCESS"}]

-----------------------------------------------------------------------------
(* Values of a group. *)

LEMMA SettingsIntro ==
  ASSUME NEW g, NEW T, NEW D \in SUBSET Fields(g), NEW v \in [D -> T]
  PROVE  v \in Settings(g, T)
BY DEF Settings

LEMMA SettingsElim ==
  ASSUME NEW g, NEW T, NEW v \in Settings(g, T)
  PROVE  DOMAIN v \subseteq Fields(g) /\ v \in [DOMAIN v -> T]
<1>1. PICK D \in SUBSET Fields(g) : v \in [D -> T]
  BY DEF Settings
<1> QED
  BY <1>1

LEMMA NoValueType == NoValue \in GroupValues
<1>1. NoValue \in [{} -> Texts]
  BY DEF NoValue
<1>2. {} \in SUBSET Fields(group)
  OBVIOUS
<1> QED
  BY <1>1, <1>2, SettingsIntro DEF GroupValues

LEMMA RowTypes ==
  /\ NoRow \in Rows /\ EmptyTable \in Tables
  /\ Idle \in CallRecord /\ Idle.pc = "idle"
  /\ \A v \in GroupValues : masterKey \in MasterKeys \cup {NoKey} => ToPersisted(v) \in Rows
<1>1. NoRow \in Rows
  BY NoValueType DEF NoRow, Rows
<1>2. EmptyTable \in Tables
  BY <1>1 DEF EmptyTable, Tables
<1>3. Idle \in CallRecord /\ Idle.pc = "idle"
  BY <1>1, <1>2 DEF Idle, CallRecord, CallStates, Scopes
<1>4. \A v \in GroupValues : masterKey \in MasterKeys \cup {NoKey} => ToPersisted(v) \in Rows
  BY DEF ToPersisted, EncryptionKey, Rows
<1> QED
  BY <1>1, <1>2, <1>3, <1>4

\* Every row is filed where it was written: the keys of a table are parsed back to the
\* scope and the stage they were made of, and no two of them to the same.
LEMMA FiledTable ==
  ASSUME group \in Groups, NEW t \in Tables
  PROVE  Filed(t) = t
<1>1. ASSUME NEW s \in Scopes, NEW stage \in Stages
      PROVE  LET key == CHOOSE k \in StorageKeys : <<s, stage>> \in ParseStorageKey(k, k.scope)
             IN  key.scope = s /\ key.stage = stage
  <2>1. StorageKey(s, stage) \in StorageKeys
    BY DEF StorageKeys
  <2>2. <<s, stage>> \in ParseStorageKey(StorageKey(s, stage), StorageKey(s, stage).scope)
    BY DEF ParseStorageKey, StorageKey
  <2>3. ASSUME NEW k \in StorageKeys, <<s, stage>> \in ParseStorageKey(k, k.scope)
        PROVE  k.scope = s /\ k.stage = stage
    BY <2>3 DEF ParseStorageKey
  <2> QED
    BY <2>1, <2>2, <2>3
<1>2. \A s \in Scopes, stage \in Stages : Filed(t)[s][stage] = t[s][stage]
  BY <1>1 DEF Filed
<1>3. Filed(t) = [s \in Scopes |-> [stage \in Stages |-> t[s][stage]]]
  BY <1>1 DEF Filed
<1> QED
  BY <1>3 DEF Tables

LEMMA RestrictType ==
  ASSUME NEW v \in GroupValues, NEW S, S \subseteq DOMAIN v
  PROVE  Restrict(v, S) \in GroupValues
<1>1. DOMAIN v \subseteq Fields(group) /\ v \in [DOMAIN v -> Texts]
  BY SettingsElim DEF GroupValues
<1>2. Restrict(v, S) \in [S -> Texts]
  BY <1>1 DEF Restrict
<1> QED
  BY <1>1, <1>2, SettingsIntro DEF GroupValues

\* The configuration of a client holds texts of its group only.
LEMMA ClientConfigType ==
  ASSUME NEW v \in GroupValues, group \in {"alipay", "wechatpay", "stripe"}, IsEnabled(group, v)
  PROVE  ClientConfig(group, v) \in GroupValues
<1>1. CASE group = "alipay"
  BY <1>1, RestrictType DEF ClientConfig, AlipaySdkConfig
<1>2. CASE group = "wechatpay"
  BY <1>2, RestrictType DEF ClientConfig, WechatPayClientConfig
<1>3. CASE group = "stripe"
  BY <1>3, RestrictType DEF ClientConfig, StripeClientKey, IsEnabled, HasStripeConfig, Set
<1> QED
  BY <1>1, <1>2, <1>3

LEMMA MergeType ==
  ASSUME NEW v \in GroupValues, NEW patch \in Patches
  PROVE  Merge(v, patch) \in GroupValues
<1> DEFINE kept == {f \in DOMAIN v \cup DOMAIN patch : f \in DOMAIN patch => patch[f] # Null}
<1>1. DOMAIN v \subseteq Fields(group) /\ v \in [DOMAIN v -> Texts]
  BY SettingsElim DEF GroupValues
<1>2. DOMAIN patch \subseteq Fields(group) /\ patch \in [DOMAIN patch -> Texts \cup {Null}]
  BY SettingsElim DEF Patches
<1>3. \A f \in kept : (IF f \in DOMAIN patch THEN patch[f] ELSE v[f]) \in Texts
  BY <1>1, <1>2
<1>4. Merge(v, patch) \in [kept -> Texts]
  BY <1>3 DEF Merge
<1>5. kept \in SUBSET Fields(group)
  BY <1>1, <1>2
<1> HIDE DEF kept
<1> QED
  BY <1>4, <1>5, SettingsIntro DEF GroupValues

LEMMA AdminValueType ==
  ASSUME NEW v \in GroupValues
  PROVE  AdminValue(v) \in Patches
<1>1. DOMAIN v \subseteq Fields(group) /\ v \in [DOMAIN v -> Texts]
  BY SettingsElim DEF GroupValues
<1>2. AdminValue(v) \in [DOMAIN v -> Texts \cup {Null}]
  BY <1>1 DEF AdminValue
<1> QED
  BY <1>1, <1>2, SettingsIntro DEF Patches

LEMMA FormPatchType ==
  ASSUME NEW listed \in Patches, NEW typed \in Patches
  PROVE  FormPatch(group, listed, typed, Null) \in Patches
<1> DEFINE form    == Filled(group, listed, typed, Null)
           sent(f) == Set(form, "MODE") => Visible(group, f, form["MODE"])
           kept    == {f \in Fields(group) : sent(f) /\ form[f] # Null}
           cleared == (DOMAIN listed \ kept) \ SecretFields(group)
<1>1. DOMAIN listed \subseteq Fields(group) /\ listed \in [DOMAIN listed -> Texts \cup {Null}]
  BY SettingsElim DEF Patches
<1>2. typed \in [DOMAIN typed -> Texts \cup {Null}]
  BY SettingsElim DEF Patches
<1>3. AlipayMode(listed) \in Texts \cup {Null}
  BY <1>1, UsesAssumption DEF AlipayMode, Set, UsesAssumption
<1>4. \A f \in Fields(group) : form[f] \in Texts \cup {Null}
  BY <1>1, <1>2, <1>3 DEF Filled, Set
<1>5. kept \cup cleared \in SUBSET Fields(group)
  BY <1>1
<1>6. FormPatch(group, listed, typed, Null)
        = [f \in kept \cup cleared |-> IF f \in kept THEN form[f] ELSE Null]
  BY DEF FormPatch
<1> HIDE DEF form
<1>7. \A f \in kept : form[f] \in Texts \cup {Null}
  BY <1>4
<1> HIDE DEF kept, cleared
<1>8. FormPatch(group, listed, typed, Null) \in [kept \cup cleared -> Texts \cup {Null}]
  BY <1>6, <1>7
<1> QED
  BY <1>5, <1>8, SettingsIntro DEF Patches

LEMMA SetupPatchType ==
  ASSUME NEW config \in Patches, "ACCOUNT" \in DOMAIN config
  PROVE  SetupPatch(group, config) \in Patches
<1>1. DOMAIN config \subseteq Fields(group) /\ config \in [DOMAIN config -> Texts \cup {Null}]
  BY SettingsElim DEF Patches
<1>2. CASE group \in {"alipay", "wechatpay"}
  <2> DEFINE mode == IF Set(config, "MODE") THEN config["MODE"] ELSE "KEY"
             D    == {"MODE", "ACCOUNT"} \cup (DOMAIN config \cap {mode})
  <2>1. mode \in Texts \cup {Null}
    BY <1>1, UsesAssumption DEF Set, UsesAssumption
  <2>2. SetupPatch(group, config) = [f \in D |-> IF f = "MODE" THEN mode ELSE config[f]]
    BY <1>2 DEF SetupPatch
  <2>3. D \in SUBSET Fields(group)
    BY <1>1, <1>2 DEF Fields, AlipayFields, WechatPayFields
  <2>4. \A f \in D : (IF f = "MODE" THEN mode ELSE config[f]) \in Texts \cup {Null}
    BY <1>1, <2>1
  <2> HIDE DEF D, mode
  <2>5. SetupPatch(group, config) \in [D -> Texts \cup {Null}]
    BY <2>2, <2>4
  <2> QED
    BY <2>3, <2>5, SettingsIntro DEF Patches
<1>3. CASE group \notin {"alipay", "wechatpay"}
  BY <1>3 DEF SetupPatch
<1> QED
  BY <1>2, <1>3

LEMMA SentType ==
  ASSUME TypeOK, NEW s \in Scopes
  PROVE  /\ Sent(s) \subseteq Patches
         /\ EditableRow(s) \in Rows /\ ActiveRow(s) \in Rows /\ ActiveRows \subseteq Rows
         /\ \A patch \in Sent(s) : PreviewValue(s, patch) \in GroupValues
<1>1. \A t \in Scopes, stage \in Stages : cache[t][stage] \in Rows
  BY DEF TypeOK, Tables
<1>2. EditableRow(s) \in Rows /\ ActiveRow(s) \in Rows /\ ActiveRows \subseteq Rows
  BY <1>1 DEF EditableRow, ActiveRow, ActiveRows, Stages, Scopes
<1>3. EditableRow(s).value \in GroupValues
  BY <1>2 DEF Rows
<1>4. Sent(s) \subseteq Patches
  <2>1. CASE HasForm(s)
    <3>1. \A typed \in Typed[group] : typed \in Patches
      BY SettingsAssumption DEF SettingsAssumption, Patches, TypeOK
    <3> QED
      BY <1>3, <2>1, <3>1, AdminValueType, FormPatchType DEF Sent
  <2>2. CASE ~HasForm(s)
    <3>1. \A config \in Setups[group] : config \in Patches /\ "ACCOUNT" \in DOMAIN config
      BY SettingsAssumption DEF SettingsAssumption, Patches, TypeOK
    <3> QED
      BY <2>2, <3>1, SetupPatchType DEF Sent
  <2> QED
    BY <2>1, <2>2
<1>5. \A patch \in Sent(s) : PreviewValue(s, patch) \in GroupValues
  BY <1>3, <1>4, MergeType DEF PreviewValue
<1> QED
  BY <1>2, <1>4, <1>5

-----------------------------------------------------------------------------
(* The configuration: its types, and how the caches follow the table. *)

\* Unless it is suspect: one call at a time, and the cache is the table until a call's
\* first statement and again when the call is over.
Current ==
  /\ ~up => InFlight = {}
  /\ ~suspect => \A c, d \in InFlight : c = d
  /\ ~suspect /\ up /\ InFlight = {} => cache = table
  /\ ~suspect => \A c \in Calls :
       /\ call[c].pc \in {"writeDraft", "dropDraft", "publish", "clear"} => cache = table
       /\ call[c].pc = "publish" => call[c].row = table[call[c].scope]["draft"]
       /\ call[c].pc = "retire" =>
            table[call[c].scope]["active"] = table[call[c].scope]["draft"]
       /\ call[c].pc = "apply" => call[c].snap = table

ConfigTypes ==
  /\ group' = group /\ table' \in Tables /\ cache' \in Tables
  /\ up' \in BOOLEAN /\ suspect' \in BOOLEAN
  /\ masterKey' \in MasterKeys \cup {NoKey}
  /\ call' \in [Calls -> CallRecord]
  /\ begun' \in 0..MaxCalls /\ faults' \in 0..MaxFaults

\* A step of one call c, which then is x; the others stay.
LEMMA OneCall ==
  ASSUME TypeOK, NEW c \in Calls, NEW x \in CallRecord, call' = [call EXCEPT ![c] = x]
  PROVE  /\ call' \in [Calls -> CallRecord] /\ call'[c] = x
         /\ \A d \in Calls : d # c => call'[d] = call[d]
BY DEF TypeOK, CallRecord

LEMMA Alone ==
  ASSUME Current, ~suspect, NEW c \in Calls, call[c].pc # "idle"
  PROVE  \A d \in Calls : d # c => call[d].pc = "idle"
BY DEF Current, InFlight

LEMMA BeginConfig ==
  ASSUME TypeOK, Current, NEW c \in Calls, NEW pc \in CallStates, NEW s \in Scopes,
         NEW row \in Rows, Begin(c, pc, s, row),
         pc \in {"writeDraft", "dropDraft", "publish", "clear"},
         pc = "publish" => row = cache[s]["draft"]
  PROVE  ConfigTypes /\ Current'
<1> DEFINE x == [Idle EXCEPT !.pc = pc, !.scope = s, !.row = row]
<1>1. x \in CallRecord /\ x.pc = pc /\ x.scope = s /\ x.row = row
  BY RowTypes DEF CallRecord
<1>2. call' = [call EXCEPT ![c] = x]
  BY DEF Begin
<1> HIDE DEF x
<1>3. /\ call' \in [Calls -> CallRecord] /\ call'[c] = x
      /\ \A d \in Calls : d # c => call'[d] = call[d]
  BY <1>1, <1>2, OneCall
<1>4. ConfigTypes
  BY <1>3, ConfigAssumption DEF Begin, ConfigTypes, TypeOK, ConfigAssumption
<1>5. up' /\ c \in InFlight'
  BY <1>1, <1>3 DEF Begin, InFlight
<1>6. ASSUME ~suspect' PROVE InFlight = {} /\ cache = table /\ ~suspect
  BY <1>6 DEF Begin, Current
<1>7. ASSUME ~suspect' PROVE \A d \in Calls : d # c => call'[d].pc = "idle"
  BY <1>3, <1>6, <1>7 DEF InFlight
<1>8. UNCHANGED <<table, cache>>
  BY DEF Begin
<1>9. Current'
  BY <1>1, <1>3, <1>5, <1>6, <1>7, <1>8 DEF Current, InFlight
<1> QED
  BY <1>4, <1>9

LEMMA StatementTypes ==
  ASSUME TypeOK, Current, NEW c \in Calls, NEW from, NEW stages, NEW row \in Rows,
         NEW next \in CallStates, Statement(c, from, stages, row, next), from # "idle",
         next # "idle"
  PROVE  /\ ConfigTypes
         /\ call'[c].pc = next /\ call'[c].scope = call[c].scope
         /\ call'[c].row = call[c].row
         /\ \A d \in Calls : d # c => call'[d] = call[d]
         /\ InFlight' = InFlight
<1> DEFINE x == [call[c] EXCEPT !.pc = next]
           s == call[c].scope
           y == [stage \in Stages |-> IF stage \in stages THEN row ELSE table[s][stage]]
<1>1. call[c] \in CallRecord
  BY DEF TypeOK, CallRecord
<1>2. /\ x \in CallRecord /\ x.pc = next /\ x.scope = call[c].scope
      /\ x.row = call[c].row
  BY <1>1 DEF CallRecord
<1>3. call' = [call EXCEPT ![c] = x]
  BY DEF Statement, TypeOK
<1> HIDE DEF x
<1>4. /\ call' \in [Calls -> CallRecord] /\ call'[c] = x
      /\ \A d \in Calls : d # c => call'[d] = call[d]
  BY <1>2, <1>3, OneCall
<1>5. s \in Scopes /\ table \in Tables
  BY <1>1 DEF CallRecord, TypeOK
<1>6. y \in [Stages -> Rows] /\ table' = [table EXCEPT ![s] = y]
  BY <1>5 DEF Statement, Tables
<1>7. table' \in Tables /\ table'[s] = y
  BY <1>5, <1>6 DEF Tables
<1>8. ConfigTypes
  BY <1>4, <1>7 DEF ConfigTypes, Statement, TypeOK, CallRecord
<1>9. InFlight' = InFlight
  BY <1>2, <1>4 DEF InFlight, Statement
<1> QED
  BY <1>2, <1>4, <1>7, <1>8, <1>9

LEMMA StatementConfig ==
  ASSUME TypeOK, Current, NEW c \in Calls,
         WriteDraft(c) \/ DropDraft(c) \/ Publish(c) \/ Retire(c) \/ Clear(c)
  PROVE  ConfigTypes /\ Current'
<1>1. call[c] \in CallRecord /\ call[c].row \in Rows /\ NoRow \in Rows
  BY RowTypes DEF TypeOK, CallRecord
<1>2. CASE Publish(c)
  <2>1. "publish" # "idle" /\ "retire" # "idle"
        /\ Statement(c, "publish", {"active"}, call[c].row, "retire") /\ "retire" \in CallStates
    BY <1>2 DEF Publish, CallStates
  <2>2. /\ ConfigTypes
        /\ call'[c].pc = "retire" /\ call'[c].scope = call[c].scope
        /\ call'[c].row = call[c].row
        /\ \A d \in Calls : d # c => call'[d] = call[d]
        /\ InFlight' = InFlight
    BY <1>1, <2>1, StatementTypes
  <2>3. call[c].pc = "publish" /\ UNCHANGED <<suspect, up, cache>>
    BY <2>1 DEF Statement
  <2>4. ~suspect => table'[call[c].scope]["active"] = table'[call[c].scope]["draft"]
    <3>1. call[c].scope \in Scopes /\ table \in [Scopes -> [Stages -> Rows]]
      BY <1>1 DEF CallRecord, TypeOK, Tables
    <3>2. /\ table'[call[c].scope]["active"] = call[c].row
          /\ table'[call[c].scope]["draft"] = table[call[c].scope]["draft"]
      BY <2>1, <3>1 DEF Statement, Stages
    <3> QED
      BY <2>2, <2>3, <3>2 DEF Current
  <2>5. ~suspect => \A d \in Calls : d # c => call[d].pc = "idle"
    BY <2>3, Alone
  <2>6. c \in InFlight
    BY <2>3 DEF InFlight
  <2>7. Current'
    BY <2>2, <2>3, <2>4, <2>5, <2>6 DEF Current
  <2> QED
    BY <2>2, <2>7
<1>3. CASE WriteDraft(c) \/ DropDraft(c) \/ Retire(c) \/ Clear(c)
  <2>1. PICK from \in {"writeDraft", "dropDraft", "retire", "clear"},
             stages \in SUBSET Stages, row \in Rows : Statement(c, from, stages, row, "reload")
    BY <1>1, <1>3 DEF WriteDraft, DropDraft, Retire, Clear, Stages
  <2>2. /\ ConfigTypes /\ call'[c].pc = "reload"
        /\ \A d \in Calls : d # c => call'[d] = call[d]
        /\ InFlight' = InFlight
    BY <2>1, StatementTypes DEF CallStates
  <2>3. call[c].pc # "idle" /\ UNCHANGED <<suspect, up, cache>>
    BY <2>1 DEF Statement
  <2>4. ~suspect => \A d \in Calls : d # c => call[d].pc = "idle"
    BY <2>3, Alone
  <2>5. c \in InFlight
    BY <2>3 DEF InFlight
  <2>6. Current'
    BY <2>2, <2>3, <2>4, <2>5 DEF Current
  <2> QED
    BY <2>2, <2>6
<1> QED
  BY <1>2, <1>3

LEMMA ReloadConfig ==
  ASSUME TypeOK, Current, NEW c \in Calls, ReadTable(c) \/ ApplyTable(c) \/ FailCall(c)
  PROVE  ConfigTypes /\ Current'
<1>1. call[c] \in CallRecord /\ table \in Tables
  BY DEF TypeOK, CallRecord
<1>2. CASE ReadTable(c)
  <2> DEFINE x == [call[c] EXCEPT !.pc = "apply", !.snap = table]
  <2>1. x \in CallRecord /\ x.pc = "apply" /\ x.snap = table
    BY <1>1 DEF CallRecord, CallStates
  <2>2. call' = [call EXCEPT ![c] = x]
    <3>1. Filed(table) = table
      BY <1>1, FiledTable DEF TypeOK
    <3> QED
      BY <1>2, <3>1 DEF ReadTable, TypeOK
  <2> HIDE DEF x
  <2>3. /\ call' \in [Calls -> CallRecord] /\ call'[c] = x
        /\ \A d \in Calls : d # c => call'[d] = call[d]
    BY <2>1, <2>2, OneCall
  <2>4. ConfigTypes
    BY <1>2, <2>3 DEF ReadTable, ConfigTypes, TypeOK
  <2>5. InFlight' = InFlight /\ c \in InFlight
    BY <1>2, <2>1, <2>3 DEF InFlight, ReadTable
  <2>6. ~suspect => \A d \in Calls : d # c => call[d].pc = "idle"
    BY <1>2, Alone DEF ReadTable
  <2>7. UNCHANGED <<table, cache, up, suspect>>
    BY <1>2 DEF ReadTable
  <2>8. Current'
    BY <2>1, <2>3, <2>5, <2>6, <2>7 DEF Current
  <2> QED
    BY <2>4, <2>8
<1>3. CASE ApplyTable(c)
  <2>1. /\ call' \in [Calls -> CallRecord] /\ call'[c] = Idle
        /\ \A d \in Calls : d # c => call'[d] = call[d]
    BY <1>3, RowTypes, OneCall DEF ApplyTable
  <2>2. ConfigTypes
    BY <1>1, <1>3, <2>1 DEF ApplyTable, ConfigTypes, TypeOK, CallRecord
  <2>3. InFlight' = InFlight \ {c} /\ c \in InFlight
    BY <1>3, <2>1, RowTypes DEF InFlight, ApplyTable
  <2>4. ASSUME ~suspect' PROVE InFlight = {c} /\ cache' = table /\ table' = table
    <3>1. CASE suspect
      BY <1>3, <2>4, <3>1 DEF ApplyTable
    <3>2. CASE ~suspect
      BY <1>3, <2>3, <3>2 DEF ApplyTable, Current, InFlight
    <3> QED
      BY <3>1, <3>2
  <2>5. up' = up /\ up
    BY <1>3, <2>3 DEF ApplyTable, Current, TypeOK
  <2>6. ASSUME ~suspect' PROVE InFlight' = {} /\ \A d \in Calls : call'[d].pc = "idle"
    BY <2>3, <2>4, <2>6 DEF InFlight
  <2>7. Current'
    BY <2>4, <2>5, <2>6 DEF Current
  <2> QED
    BY <2>2, <2>7
<1>4. CASE FailCall(c)
  <2>1. /\ call' \in [Calls -> CallRecord] /\ call'[c] = Idle
        /\ \A d \in Calls : d # c => call'[d] = call[d]
    BY <1>4, RowTypes, OneCall DEF FailCall
  <2>2. ConfigTypes
    BY <1>4, <2>1, ConfigAssumption DEF FailCall, ConfigTypes, TypeOK, ConfigAssumption
  <2>3. InFlight' = InFlight \ {c} /\ c \in InFlight
    BY <1>4, <2>1, RowTypes DEF InFlight, FailCall
  <2>4. ASSUME ~suspect' PROVE cache = table /\ InFlight = {c}
    <3>1. ~suspect /\ call[c].pc \notin {"idle", "apply", "retire", "reload"}
      BY <1>4, <2>4 DEF FailCall
    <3>2. call[c].pc \in {"writeDraft", "dropDraft", "publish", "clear"}
      BY <1>1, <3>1 DEF CallRecord, CallStates
    <3> QED
      BY <2>3, <3>1, <3>2 DEF Current
  <2>5. UNCHANGED <<table, cache, up>> /\ up
    BY <1>4, <2>3 DEF FailCall, Current, TypeOK
  <2>6. ASSUME ~suspect' PROVE InFlight' = {} /\ \A d \in Calls : call'[d].pc = "idle"
    BY <2>3, <2>4, <2>6 DEF InFlight
  <2>7. Current'
    BY <2>4, <2>5, <2>6 DEF Current
  <2> QED
    BY <2>2, <2>7
<1> QED
  BY <1>2, <1>3, <1>4

LEMMA RestartConfig ==
  ASSUME TypeOK, Current, Crash \/ Restart
  PROVE  ConfigTypes /\ Current'
<1>1. CASE Crash
  <2>1. call' \in [Calls -> CallRecord] /\ \A c \in Calls : call'[c].pc = "idle"
    BY <1>1, RowTypes DEF Crash
  <2>2. ConfigTypes
    <3>1. cache' \in Tables /\ up' \in BOOLEAN
      BY <1>1, RowTypes DEF Crash
    <3>2. faults' \in 0..MaxFaults
      BY <1>1, ConfigAssumption DEF Crash, TypeOK, ConfigAssumption
    <3> QED
      BY <1>1, <2>1, <3>1, <3>2 DEF Crash, ConfigTypes, TypeOK
  <2>3. Current'
    BY <1>1, <2>1 DEF Crash, Current, InFlight
  <2> QED
    BY <2>2, <2>3
<1>2. CASE Restart
  <2>1. \A c \in Calls : call[c].pc = "idle"
    BY <1>2 DEF Restart, Current, InFlight
  <2>2. cache' = table
    BY <1>2, FiledTable DEF Restart, TypeOK
  <2>3. ConfigTypes
    BY <1>2, <2>2 DEF Restart, ConfigTypes, TypeOK, CallRecord
  <2>4. Current'
    BY <1>2, <2>1, <2>2 DEF Restart, Current, InFlight
  <2> QED
    BY <2>3, <2>4
<1> QED
  BY <1>1, <1>2

LEMMA ConfigPreserves ==
  ASSUME TypeOK, Current, (\E c \in Calls : CallStep(c)) \/ Crash \/ Restart
  PROVE  ConfigTypes /\ Current'
<1>1. ASSUME NEW c \in Calls, NEW s \in Scopes, NEW patch \in Sent(s), BeginUpsert(c, s, patch)
      PROVE  ConfigTypes /\ Current'
  <2> DEFINE merged == PreviewValue(s, patch)
  <2>1. ToPersisted(merged) \in Rows /\ NoRow \in Rows
    BY RowTypes, SentType DEF TypeOK
  <2>2. Begin(c, "dropDraft", s, NoRow) \/ Begin(c, "writeDraft", s, ToPersisted(merged))
    BY <1>1 DEF BeginUpsert
  <2> HIDE DEF merged
  <2> QED
    BY <2>1, <2>2, BeginConfig DEF CallStates
<1>2. ASSUME NEW c \in Calls, NEW s \in Scopes, BeginActivate(c, s) PROVE ConfigTypes /\ Current'
  <2>1. cache[s]["draft"] \in Rows
    BY DEF TypeOK, Tables, Stages
  <2> QED
    BY <1>2, <2>1, BeginConfig DEF BeginActivate, CallStates
<1>3. ASSUME NEW c \in Calls, NEW s \in Scopes, BeginClear(c, s) PROVE ConfigTypes /\ Current'
  BY <1>3, RowTypes, BeginConfig DEF BeginClear, CallStates
<1> QED
  BY <1>1, <1>2, <1>3, StatementConfig, ReloadConfig, RestartConfig DEF CallStep

-----------------------------------------------------------------------------
(* The clients: what a request awaits was built from what it asked for. *)

\* A client that was built from something else than cfg serves cfg only when no client
\* could be built from it.
Serves(i, cfg) ==
  clients[i].cfg = cfg \/ (group = "wechatpay" /\ ~Buildable(group, cfg))

SlotFits ==
  /\ slot = [key |-> slot.key, client |-> slot.client]
  /\ slot.client # 0 => Serves(slot.client, slot.key)

UseFits(x) ==
  x.pc \in {"await", "exec"} => x.client \in 1..Len(clients) /\ Serves(x.client, x.asked)

ClientsFit == SlotFits /\ \A u \in Uses : UseFits(use[u])

\* Clients are only added.
Grown ==
  /\ Len(clients) <= Len(clients')
  /\ \A i \in 1..Len(clients) : clients'[i].cfg = clients[i].cfg

ClientTypes ==
  /\ slot'.key \in GroupValues /\ slot'.client \in 0..Len(clients')
  /\ clients' \in Seq(ClientRecord)
  /\ use' \in [Uses -> UseRecord(Len(clients'))]
  /\ published' \in [Scopes -> SUBSET GroupValues]

LEMMA Assemble ==
  ASSUME TypeOK, ConfigTypes, ClientTypes
  PROVE  TypeOK'
<1>1. group' = group /\ group' \in Groups
  BY DEF ConfigTypes, TypeOK
<1>2. GroupValues' = GroupValues
  BY <1>1 DEF GroupValues
<1>3. Rows' = Rows
  BY <1>2 DEF Rows
<1>4. Tables' = Tables
  BY <1>3 DEF Tables
<1>5. call' \in [Calls -> [pc : CallStates, scope : Scopes, row : Rows', snap : Tables']]
  BY <1>3, <1>4 DEF ConfigTypes, CallRecord
<1>6. clients' \in Seq([cfg : GroupValues', state : {"pending", "ready", "rejected"}])
  BY <1>2 DEF ClientTypes, ClientRecord
<1>7. use' \in [Uses -> [pc : {"idle", "await", "exec", "done"},
                kind : {"none", "order", "notify", "active", "preview"}, scope : Scopes,
                value : GroupValues', asked : GroupValues', client : 0..Len(clients'),
                verify : BOOLEAN,
                result : {"none", "UNAVAILABLE", "UNSUPPORTED", "FAILED", "SUCCESS"}]]
  BY <1>2 DEF ClientTypes, UseRecord
<1> QED
  BY <1>1, <1>2, <1>4, <1>5, <1>6, <1>7 DEF TypeOK, ConfigTypes, ClientTypes

LEMMA SeqTypes ==
  ASSUME TypeOK
  PROVE  /\ clients \in Seq(ClientRecord) /\ Len(clients) \in Nat
         /\ \A i \in 1..Len(clients) : clients[i] \in ClientRecord
<1>1. clients \in Seq(ClientRecord)
  BY DEF TypeOK, ClientRecord
<1> QED
  BY <1>1, LenProperties, ElementOfSeq

LEMMA NewSlotFits ==
  ASSUME TypeOK, group' = group, NEW cfg \in GroupValues,
         NEW state \in {"pending", "ready"}, NewSlot(cfg, state)
  PROVE  /\ slot' = [key |-> cfg, client |-> Len(clients')]
         /\ clients' \in Seq(ClientRecord) /\ Len(clients') \in Nat \ {0}
         /\ Grown /\ SlotFits' /\ clients'[Len(clients')].cfg = cfg
<1> DEFINE new == [cfg |-> cfg, state |-> state]
<1>1. new \in ClientRecord
  BY DEF ClientRecord
<1>2. clients' = Append(clients, new) /\ slot' = [key |-> cfg, client |-> Len(clients')]
  BY DEF NewSlot
<1>3. new.cfg = cfg
  OBVIOUS
<1> HIDE DEF new
<1>4. /\ clients' \in Seq(ClientRecord) /\ Len(clients') = Len(clients) + 1
      /\ \A i \in 1..Len(clients) : clients'[i] = clients[i]
      /\ clients'[Len(clients) + 1] = new
  BY <1>1, <1>2, SeqTypes, AppendProperties
<1>5. Len(clients) \in Nat
  BY SeqTypes
<1> QED
  BY <1>2, <1>3, <1>4, <1>5 DEF Grown, SlotFits, Serves

\* After getClient the slot is that of the configuration asked for, unless it threw.
LEMMA GetClientFits ==
  ASSUME TypeOK, SlotFits, group' = group, NEW cfg \in GroupValues, GetClient(cfg)
  PROVE  /\ slot'.key \in GroupValues /\ slot'.client \in 0..Len(clients')
         /\ clients' \in Seq(ClientRecord) /\ Grown /\ SlotFits'
         /\ ~Throws(cfg) => slot'.client \in 1..Len(clients') /\ slot'.key = cfg
<1>1. Len(clients) \in Nat /\ clients \in Seq(ClientRecord)
  BY SeqTypes
<1>2. slot.key \in GroupValues /\ slot.client \in 0..Len(clients)
  BY DEF TypeOK
<1>3. CASE Matches(cfg)
  <2>1. UNCHANGED <<slot, clients>>
    BY <1>3 DEF GetClient
  <2>2. SlotFits'
    BY <2>1 DEF SlotFits, Serves
  <2> QED
    BY <1>1, <1>2, <1>3, <2>1, <2>2 DEF Matches, Grown
<1>4. CASE ~Matches(cfg)
  <2>1. NewClient(cfg)
    BY <1>4 DEF GetClient
  <2>2. CASE \E state \in {"pending", "ready"} : NewSlot(cfg, state)
    BY <2>2, NewSlotFits
  <2>3. CASE group = "wechatpay" /\ ~Buildable(group, cfg)
    <3>1. slot' = [slot EXCEPT !.key = cfg] /\ clients' = clients
      BY <2>1, <2>3 DEF NewClient, NewAlipayClient, NewWechatPayClient, NewStripeClient
    <3>2. slot' = [key |-> cfg, client |-> slot.client]
      BY <3>1 DEF SlotFits
    <3>3. SlotFits'
      BY <2>3, <3>2 DEF SlotFits, Serves
    <3>4. Throws(cfg)
      BY <1>4, <2>3 DEF Throws
    <3> QED
      BY <1>1, <1>2, <3>1, <3>2, <3>3, <3>4 DEF Grown
  <2> QED
    BY <2>1, <2>2, <2>3 DEF NewClient, NewAlipayClient, NewWechatPayClient, NewStripeClient
<1> QED
  BY <1>3, <1>4

\* A request that does not move keeps its client.
LEMMA UseStays ==
  ASSUME TypeOK, ClientsFit, Grown, group' = group, Len(clients') \in Nat,
         NEW u \in Uses, use'[u] = use[u]
  PROVE  UseFits(use[u])'
<1> SUFFICES ASSUME use'[u].pc \in {"await", "exec"}
             PROVE  use'[u].client \in 1..Len(clients') /\ Serves(use[u].client, use[u].asked)'
  BY DEF UseFits
<1> DEFINE i == use[u].client
           cfg == use[u].asked
<1>1. i \in 1..Len(clients) /\ Serves(i, cfg)
  BY DEF ClientsFit, UseFits
<1>2. i \in 1..Len(clients') /\ clients'[i].cfg = clients[i].cfg
  BY <1>1, SeqTypes DEF Grown
<1>3. i' = i /\ cfg' = cfg
  OBVIOUS
<1> QED
  BY <1>1, <1>2, <1>3 DEF Serves

\* A step of one request u, which then is x.
LEMMA OneUse ==
  ASSUME TypeOK, ClientsFit, Grown, group' = group, SlotFits',
         slot'.key \in GroupValues, slot'.client \in 0..Len(clients'),
         clients' \in Seq(ClientRecord), UNCHANGED published,
         NEW u \in Uses, NEW x \in UseRecord(Len(clients')), use' = [use EXCEPT ![u] = x],
         x.pc \in {"await", "exec"} =>
           /\ x.client \in 1..Len(clients')
           /\ clients'[x.client].cfg = x.asked \/ (group = "wechatpay" /\ ~Buildable(group, x.asked))
  PROVE  /\ ClientTypes /\ ClientsFit'
         /\ use'[u] = x /\ \A w \in Uses : w # u => use'[w] = use[w]
<1>1. Len(clients) \in Nat /\ Len(clients') \in Nat
  BY SeqTypes, LenProperties
<1>2. use'[u] = x /\ \A w \in Uses : w # u => use'[w] = use[w]
  BY DEF TypeOK
<1>3. UseRecord(Len(clients)) \subseteq UseRecord(Len(clients'))
  BY <1>1 DEF UseRecord, Grown
<1>4. use \in [Uses -> UseRecord(Len(clients))]
  BY DEF TypeOK, UseRecord
<1>5. use' \in [Uses -> UseRecord(Len(clients'))]
  BY <1>3, <1>4
<1>6. ClientTypes
  BY <1>5 DEF ClientTypes, TypeOK
<1>7. UseFits(use[u])'
  BY <1>2 DEF UseFits, Serves
<1>8. \A w \in Uses : UseFits(use[w])'
  BY <1>1, <1>2, <1>7, UseStays
<1> QED
  BY <1>2, <1>6, <1>8 DEF ClientsFit

-----------------------------------------------------------------------------
(* What has been published, and the whole invariant. *)

\* What is in force, or about to be, has been published.
TablesPublished ==
  /\ \A s \in Scopes : table[s]["active"].value \in published[s]
  /\ up => \A s \in Scopes : cache[s]["active"].value \in published[s]
  /\ \A c \in Calls, s \in Scopes :
       call[c].pc = "apply" => call[c].snap[s]["active"].value \in published[s]

Inv == TypeOK /\ Current /\ ClientsFit /\ TablesPublished /\ PreviewsArePrivate

LEMMA IdleUseType ==
  /\ \A n \in Nat : IdleUse \in UseRecord(n)
  /\ IdleUse.pc = "idle" /\ IdleUse.kind = "none"
BY NoValueType DEF IdleUse, UseRecord, Scopes

LEMMA InitInv == Init => Inv
<1> SUFFICES ASSUME Init PROVE Inv
  OBVIOUS
<1>1. group \in Groups /\ masterKey \in MasterKeys \cup {NoKey}
  BY DEF Init, ConfigInit
<1>2. PICK v \in Published[group] :
        table = [s \in Scopes |->
                  [stage \in Stages |-> IF stage = "active" THEN ToPersisted(v[s]) ELSE NoRow]]
  BY DEF Init, ConfigInit
<1>3. \A s \in Scopes : v[s] \in GroupValues
  BY <1>1, SettingsAssumption DEF SettingsAssumption, GroupValues
<1>4. table \in Tables /\ cache = table
  BY <1>1, <1>2, <1>3, RowTypes DEF Tables, Init, ConfigInit
<1>5. \A c \in Calls : call[c] = Idle
  BY DEF Init, ConfigInit
<1>6. call \in [Calls -> CallRecord]
  BY RowTypes DEF Init, ConfigInit
<1>7. begun \in 0..MaxCalls /\ faults \in 0..MaxFaults
  BY ConfigAssumption DEF Init, ConfigInit, ConfigAssumption
<1>8. clients \in Seq(ClientRecord) /\ Len(clients) = 0
  BY EmptySeq DEF Init
<1>9. slot = [key |-> NoValue, client |-> 0]
  BY DEF Init, NoClient
<1>10. use \in [Uses -> UseRecord(Len(clients))]
  BY <1>8, IdleUseType DEF Init
<1>11. \A s \in Scopes : table[s]["active"].value \in GroupValues
  BY <1>4 DEF Tables, Stages, Rows
<1>12. published \in [Scopes -> SUBSET GroupValues]
  BY <1>11 DEF Init
<1>13. up = TRUE /\ suspect = FALSE
  BY DEF Init, ConfigInit
<1>14. TypeOK
  <2>1. up \in BOOLEAN /\ suspect \in BOOLEAN
    BY <1>13
  <2>2. slot.key \in GroupValues /\ slot.client \in 0..Len(clients)
    BY <1>8, <1>9, NoValueType
  <2> QED
    BY <1>1, <1>4, <1>6, <1>7, <1>8, <1>10, <1>12, <2>1, <2>2
       DEF TypeOK, CallRecord, ClientRecord, UseRecord
<1>15. Current
  BY <1>4, <1>5, <1>13, RowTypes DEF Current, InFlight
<1>16. \A u \in Uses : use[u] = IdleUse
  BY DEF Init
<1>17. ClientsFit
  BY <1>9, <1>16, IdleUseType DEF ClientsFit, SlotFits, UseFits
<1>18. TablesPublished
  <2>1. \A s \in Scopes : table[s]["active"].value \in published[s]
    BY DEF Init
  <2> QED
    BY <1>4, <1>5, <2>1, RowTypes DEF TablesPublished
<1>19. PreviewsArePrivate
  BY <1>16, IdleUseType DEF PreviewsArePrivate
<1> QED
  BY <1>14, <1>15, <1>17, <1>18, <1>19 DEF Inv

\* Where the caches and the snapshots of a step come from.
Sources ==
  /\ \/ cache' = cache /\ up' = up
     \/ cache' = table
     \/ \E c \in Calls : call[c].pc = "apply" /\ cache' = call[c].snap
  /\ \A c \in Calls : call'[c].pc = "apply" => call'[c] = call[c] \/ call'[c].snap = table

LEMMA BeginSources ==
  ASSUME TypeOK, NEW c \in Calls, NEW pc, NEW s, NEW row, Begin(c, pc, s, row), pc # "apply"
  PROVE  Sources
BY DEF Begin, Sources, Idle, TypeOK

LEMMA StatementSources ==
  ASSUME TypeOK, NEW c \in Calls, NEW from, NEW stages, NEW row, NEW next,
         Statement(c, from, stages, row, next), next # "apply"
  PROVE  Sources
BY DEF Statement, Sources, TypeOK

LEMMA CallSources ==
  ASSUME TypeOK, Current, NEW c \in Calls, CallStep(c)
  PROVE  Sources
<1>1. ASSUME NEW s \in Scopes, NEW patch \in Sent(s), BeginUpsert(c, s, patch) PROVE Sources
  <2>1. \E pc \in {"dropDraft", "writeDraft"} : \E row : Begin(c, pc, s, row)
    BY <1>1 DEF BeginUpsert
  <2> QED
    BY <2>1, BeginSources
<1>2. ASSUME NEW s \in Scopes, BeginActivate(c, s) \/ BeginClear(c, s) PROVE Sources
  BY <1>2, BeginSources DEF BeginActivate, BeginClear
<1>3. CASE WriteDraft(c) \/ DropDraft(c) \/ Publish(c) \/ Retire(c) \/ Clear(c)
  BY <1>3, StatementSources DEF WriteDraft, DropDraft, Publish, Retire, Clear
<1>4. CASE ReadTable(c)
  BY <1>4, FiledTable DEF ReadTable, Sources, TypeOK
<1>5. CASE ApplyTable(c)
  BY <1>5, RowTypes DEF ApplyTable, Sources, TypeOK
<1>6. CASE FailCall(c)
  BY <1>6, RowTypes DEF FailCall, Sources, TypeOK
<1> QED
  BY <1>1, <1>2, <1>3, <1>4, <1>5, <1>6 DEF CallStep

LEMMA ConfigStepPreserves ==
  ASSUME Inv, ConfigStep
  PROVE  Inv'
<1>1. ConfigTypes /\ Current'
  BY ConfigPreserves DEF ConfigStep, Inv
<1>2. Sources
  <2>1. CASE Restart
    BY <2>1, FiledTable DEF Restart, Sources, Inv, TypeOK
  <2> QED
    BY <2>1, CallSources DEF ConfigStep, Inv
<1>3. /\ \A s \in Scopes : published'[s] = published[s] \cup {table'[s]["active"].value}
      /\ published' = [s \in Scopes |-> published[s] \cup {table'[s]["active"].value}]
      /\ UNCHANGED <<slot, clients, use>>
  BY DEF ConfigStep
<1>4. TablesPublished'
  <2>1. \A s \in Scopes : table'[s]["active"].value \in published'[s]
    BY <1>3
  <2>2. \A s \in Scopes : table[s]["active"].value \in published'[s]
    BY <1>3 DEF Inv, TablesPublished
  <2>3. \A c \in Calls, s \in Scopes :
          call[c].pc = "apply" => call[c].snap[s]["active"].value \in published'[s]
    BY <1>3 DEF Inv, TablesPublished
  <2>4. up' => \A s \in Scopes : cache'[s]["active"].value \in published'[s]
    <3>1. CASE cache' = cache /\ up' = up
      BY <1>3, <3>1 DEF Inv, TablesPublished
    <3>2. CASE cache' = table
      BY <2>2, <3>2
    <3>3. ASSUME NEW c \in Calls, call[c].pc = "apply", cache' = call[c].snap
          PROVE  \A s \in Scopes : cache'[s]["active"].value \in published'[s]
      BY <2>3, <3>3
    <3> QED
      BY <1>2, <3>1, <3>2, <3>3 DEF Sources
  <2>5. \A c \in Calls, s \in Scopes :
          call'[c].pc = "apply" => call'[c].snap[s]["active"].value \in published'[s]
    BY <1>2, <2>2, <2>3 DEF Sources
  <2> QED
    BY <2>1, <2>4, <2>5 DEF TablesPublished
<1>5. ClientTypes
  <2>1. \A s \in Scopes : table'[s]["active"].value \in GroupValues
    BY <1>1 DEF ConfigTypes, Tables, Stages, Rows
  <2>2. published' \in [Scopes -> SUBSET GroupValues]
    BY <1>3, <2>1 DEF Inv, TypeOK
  <2> QED
    BY <1>3, <2>2 DEF Inv, TypeOK, ClientTypes, ClientRecord, UseRecord
<1>6. group' = group
  BY <1>1 DEF ConfigTypes
<1>7. ClientsFit'
  BY <1>3, <1>6 DEF Inv, ClientsFit, SlotFits, UseFits, Serves
<1>8. PreviewsArePrivate'
  <2>1. \A u \in Uses : use[u].scope \in Scopes /\ Global \in Scopes
    BY DEF Inv, TypeOK, Scopes
  <2> QED
    BY <1>3, <1>6, <2>1 DEF Inv, PreviewsArePrivate
<1> QED
  BY <1>1, <1>4, <1>5, <1>7, <1>8, Assemble DEF Inv

LEMMA CrashPreserves ==
  ASSUME Inv, CrashStep
  PROVE  Inv'
<1>1. ConfigTypes /\ Current' /\ group' = group
  BY ConfigPreserves DEF CrashStep, ConfigTypes, Inv
<1>2. slot' = [key |-> NoValue, client |-> 0] /\ clients' = <<>> /\ UNCHANGED <<published, table>>
  BY DEF CrashStep, NoClient, Crash
<1>3. clients' \in Seq(ClientRecord) /\ Len(clients') = 0
  BY <1>2, EmptySeq
<1>4. use' \in [Uses -> UseRecord(Len(clients'))] /\ \A u \in Uses : use'[u] = IdleUse
  BY <1>3, IdleUseType DEF CrashStep
<1>5. ClientTypes
  BY <1>2, <1>3, <1>4, NoValueType DEF ClientTypes, Inv, TypeOK
<1>6. ClientsFit'
  BY <1>2, <1>4, IdleUseType DEF ClientsFit, SlotFits, UseFits
<1>7. TablesPublished'
  <2>1. ~up' /\ \A c \in Calls : call'[c].pc = "idle"
    BY RowTypes DEF CrashStep, Crash
  <2> QED
    BY <1>2, <2>1 DEF TablesPublished, Inv
<1>8. PreviewsArePrivate'
  BY <1>4, IdleUseType DEF PreviewsArePrivate
<1> QED
  BY <1>1, <1>5, <1>6, <1>7, <1>8, Assemble DEF Inv

-----------------------------------------------------------------------------
(* The requests. *)

ConfigStays ==
  /\ UNCHANGED <<group, table, cache, up, masterKey, call, suspect>>
  /\ begun' \in 0..MaxCalls /\ faults' \in 0..MaxFaults

LEMMA ConfigKept ==
  ASSUME Inv, ConfigStays, published' = published
  PROVE  ConfigTypes /\ Current' /\ TablesPublished' /\ group' = group
<1>1. ConfigTypes
  BY DEF ConfigStays, ConfigTypes, Inv, TypeOK, CallRecord
<1>2. Current'
  BY DEF ConfigStays, Inv, Current, InFlight
<1>3. TablesPublished'
  BY DEF ConfigStays, Inv, TablesPublished
<1> QED
  BY <1>1, <1>2, <1>3 DEF ConfigStays

LEMMA CountedStays ==
  ASSUME Inv, Counted
  PROVE  ConfigStays
BY ConfigAssumption DEF Counted, ConfigStays, Inv, TypeOK, ConfigAssumption

\* What PreviewsArePrivate says of one request.
Private(x) ==
  /\ x.kind \in {"order", "notify"} => x.value \in published[x.scope] \cup published[Global]
  /\ x.kind = "preview" /\ x.pc = "exec" /\ group = "alipay" =>
       x.verify = HasAlipayVerifyConfig(x.value)

LEMMA UsePreserves ==
  ASSUME Inv, ConfigStays, published' = published, Grown, SlotFits',
         slot'.key \in GroupValues, slot'.client \in 0..Len(clients'),
         clients' \in Seq(ClientRecord),
         NEW u \in Uses, NEW x \in UseRecord(Len(clients')), use' = [use EXCEPT ![u] = x],
         Private(x),
         x.pc \in {"await", "exec"} =>
           /\ x.client \in 1..Len(clients')
           /\ clients'[x.client].cfg = x.asked \/ (group = "wechatpay" /\ ~Buildable(group, x.asked))
  PROVE  Inv'
<1>1. ConfigTypes /\ Current' /\ TablesPublished' /\ group' = group
  BY ConfigKept
<1>2. /\ ClientTypes /\ ClientsFit'
      /\ use'[u] = x /\ \A w \in Uses : w # u => use'[w] = use[w]
  BY <1>1, OneUse DEF Inv
<1>3. PreviewsArePrivate'
  BY <1>1, <1>2 DEF Inv, PreviewsArePrivate, Private
<1> QED
  BY <1>1, <1>2, <1>3, Assemble DEF Inv

\* A step of one request that leaves the slot and the clients alone.
LEMMA SlotStays ==
  ASSUME Inv, ConfigStays, UNCHANGED <<published, slot, clients>>,
         NEW u \in Uses, NEW x \in UseRecord(Len(clients)), use' = [use EXCEPT ![u] = x],
         Private(x),
         x.pc \in {"await", "exec"} => x.client \in 1..Len(clients) /\ Serves(x.client, x.asked)
  PROVE  Inv'
<1>1. Grown /\ clients' \in Seq(ClientRecord)
  BY SeqTypes DEF Grown, Inv
<1>2. SlotFits' /\ slot'.key \in GroupValues /\ slot'.client \in 0..Len(clients')
  BY DEF Inv, ClientsFit, SlotFits, Serves, ConfigStays, TypeOK
<1> QED
  BY <1>1, <1>2, UsePreserves DEF Serves

LEMMA EnterPreserves ==
  ASSUME Inv, ConfigStays, published' = published, NEW u \in Uses,
         NEW kind \in {"order", "notify", "active", "preview"}, NEW s \in Scopes,
         NEW v \in GroupValues, NEW disabled \in {"UNAVAILABLE", "FAILED"},
         group \in {"alipay", "wechatpay", "stripe"}, Enter(u, kind, s, v, disabled),
         kind \in {"order", "notify"} => v \in published[s] \cup published[Global]
  PROVE  Inv'
<1> DEFINE cfg == ClientConfig(group, v)
<1>0. \A n \in Nat : 0 \in 0..n
  OBVIOUS
<1>1. CASE ~IsEnabled(group, v)
  <2> DEFINE x == Answered(kind, s, v, disabled)
  <2>1. x \in UseRecord(Len(clients)) /\ x.pc = "done" /\ x.kind = kind /\ x.scope = s /\ x.value = v
    BY SeqTypes, IdleUseType DEF Answered, UseRecord, Inv
  <2>2. use' = [use EXCEPT ![u] = x] /\ UNCHANGED <<slot, clients>>
    BY <1>1 DEF Enter
  <2> HIDE DEF x
  <2> QED
    BY <2>1, <2>2, SlotStays DEF Private
<1>2. CASE IsEnabled(group, v)
  <2>1. cfg \in GroupValues
    BY <1>2, ClientConfigType
  <2>2. GetClient(cfg)
    BY <1>2 DEF Enter
  <2>3. /\ slot'.key \in GroupValues /\ slot'.client \in 0..Len(clients')
        /\ clients' \in Seq(ClientRecord) /\ Grown /\ SlotFits'
        /\ ~Throws(cfg) => slot'.client \in 1..Len(clients') /\ slot'.key = cfg
    BY <2>1, <2>2, GetClientFits DEF Inv, ClientsFit, ConfigStays
  <2>4. Len(clients') \in Nat
    BY <2>3, LenProperties
  <2>5. CASE Throws(cfg)
    <3> DEFINE x == [Answered(kind, s, v, "FAILED") EXCEPT !.asked = cfg]
    <3>1. x \in UseRecord(Len(clients')) /\ x.pc = "done" /\ x.kind = kind /\ x.scope = s /\ x.value = v
      BY <2>1, <2>4, IdleUseType DEF Answered, UseRecord
    <3>2. use' = [use EXCEPT ![u] = x]
      BY <1>2, <2>5 DEF Enter
    <3> HIDE DEF x, cfg
    <3> QED
      BY <2>3, <3>1, <3>2, UsePreserves DEF Private
  <2>6. CASE ~Throws(cfg)
    <3> DEFINE x == [IdleUse EXCEPT !.pc = "await", !.kind = kind, !.scope = s,
                                    !.value = v, !.asked = cfg, !.client = slot'.client]
    <3>1. x \in UseRecord(Len(clients'))
      BY <2>1, <2>3, <2>4, IdleUseType DEF UseRecord
    <3>2. /\ x.pc = "await" /\ x.kind = kind /\ x.scope = s /\ x.value = v
          /\ x.asked = cfg /\ x.client = slot'.client
      BY DEF IdleUse
    <3>3. use' = [use EXCEPT ![u] = x]
      BY <1>2, <2>6 DEF Enter
    <3>4. clients'[slot'.client].cfg = cfg \/ (group = "wechatpay" /\ ~Buildable(group, cfg))
      BY <2>3, <2>6 DEF SlotFits, Serves, ConfigStays
    <3> HIDE DEF x, cfg
    <3> QED
      BY <2>3, <2>6, <3>1, <3>2, <3>3, <3>4, UsePreserves DEF Private
  <2> QED
    BY <2>5, <2>6
<1> QED
  BY <1>1, <1>2

LEMMA ActivePublished ==
  ASSUME Inv, up, NEW s \in Scopes
  PROVE  /\ ActiveRow(s).value \in published[s] \cup published[Global]
         /\ ActiveRow(s).value \in GroupValues
<1>1. ActiveRow(s) \in Rows
  BY SentType DEF Inv
<1> QED
  BY <1>1 DEF ActiveRow, Inv, TablesPublished, Scopes, Rows

LEMMA BeginPreserves ==
  ASSUME Inv, NEW u \in Uses, NEW s \in Scopes,
         \/ BeginOrder(u, s) \/ BeginNotify(u, s) \/ ValidateActive(u, s)
         \/ \E patch \in Sent(s) : ValidatePreview(u, s, patch)
  PROVE  Inv'
<1>1. CASE BeginOrder(u, s) \/ BeginNotify(u, s)
  <2>1. ConfigStays /\ published' = published /\ up
    BY <1>1, CountedStays DEF BeginOrder, BeginNotify, Starts
  <2>2. PICK kind \in {"order", "notify"}, disabled \in {"UNAVAILABLE", "FAILED"} :
          Enter(u, kind, s, ActiveRow(s).value, disabled)
    BY <1>1 DEF BeginOrder, BeginNotify
  <2>3. group \in {"alipay", "wechatpay", "stripe"}
    BY <1>1 DEF BeginOrder, BeginNotify
  <2> QED
    BY <2>1, <2>2, <2>3, ActivePublished, EnterPreserves
<1>2. ASSUME NEW kind \in {"active", "preview"}, NEW v \in GroupValues, BeginValidate(u, kind, s, v)
      PROVE  Inv'
  <2>1. ConfigStays /\ published' = published
    BY <1>2, CountedStays DEF BeginValidate, Starts
  <2>2. CASE group \in {"alipay", "wechatpay", "stripe"}
    <3>1. Enter(u, kind, s, v, "FAILED")
      BY <1>2, <2>2 DEF BeginValidate
    <3> QED
      BY <2>1, <2>2, <3>1, EnterPreserves
  <2>3. CASE group \notin {"alipay", "wechatpay", "stripe"}
    <3> DEFINE x == Answered(kind, s, v, "UNSUPPORTED")
    <3>1. x \in UseRecord(Len(clients)) /\ x.pc = "done" /\ x.kind = kind
      BY SeqTypes, IdleUseType DEF Answered, UseRecord, Inv
    <3>2. use' = [use EXCEPT ![u] = x] /\ UNCHANGED <<slot, clients>>
      BY <1>2, <2>3 DEF BeginValidate
    <3> HIDE DEF x
    <3> QED
      BY <2>1, <3>1, <3>2, SlotStays DEF Private
  <2> QED
    BY <2>2, <2>3
<1>3. CASE ValidateActive(u, s)
  <2>1. up
    BY <1>3 DEF ValidateActive, BeginValidate, Starts
  <2> QED
    BY <1>2, <1>3, <2>1, ActivePublished DEF ValidateActive
<1>4. ASSUME NEW patch \in Sent(s), ValidatePreview(u, s, patch) PROVE Inv'
  BY <1>2, <1>4, SentType DEF ValidatePreview, Inv
<1> QED
  BY <1>1, <1>2, <1>3, <1>4

LEMMA ServePreserves ==
  ASSUME Inv, NEW u \in Uses, Execute(u) \/ VerifyNotify(u) \/ AwaitFails(u) \/ Answer(u)
  PROVE  Inv'
<1>1. use[u] \in UseRecord(Len(clients)) /\ UseFits(use[u]) /\ Private(use[u])
  BY DEF Inv, TypeOK, UseRecord, ClientsFit, PreviewsArePrivate, Private
<1>2. ConfigStays /\ UNCHANGED <<published, slot, clients>>
  BY DEF Execute, VerifyNotify, AwaitFails, Answer, configVars, ConfigStays, Inv, TypeOK
<1>3. CASE Execute(u)
  <2> DEFINE verify == group # "alipay" \/ HasAlipayVerifyConfig(CurrentValue(u))
             x == [use[u] EXCEPT !.pc = "exec", !.verify = verify]
  <2>1. use' = [use EXCEPT ![u] = x] /\ use[u].pc = "await"
    BY <1>3 DEF Execute, Inv, TypeOK
  <2>2. verify \in BOOLEAN
    BY DEF HasAlipayVerifyConfig, Set
  <2>3. use[u].kind = "preview" /\ group = "alipay" => verify = HasAlipayVerifyConfig(use[u].value)
    BY DEF CurrentValue, HasAlipayVerifyConfig, Set
  <2> HIDE DEF verify
  <2>4. /\ x \in UseRecord(Len(clients)) /\ x.pc = "exec" /\ x.kind = use[u].kind
        /\ x.scope = use[u].scope /\ x.value = use[u].value /\ x.asked = use[u].asked
        /\ x.client = use[u].client /\ x.verify = verify
    BY <1>1, <2>2 DEF UseRecord
  <2> HIDE DEF x
  <2>5. Private(x)
    BY <1>1, <2>3, <2>4 DEF Private
  <2> QED
    BY <1>1, <1>2, <2>1, <2>4, <2>5, SlotStays DEF UseFits
<1>4. CASE VerifyNotify(u) \/ AwaitFails(u) \/ Answer(u)
  <2>1. PICK result \in {"FAILED", "SUCCESS"} :
          use' = [use EXCEPT ![u].pc = "done", ![u].result = result]
    BY <1>4 DEF VerifyNotify, AwaitFails, Answer
  <2> DEFINE x == [use[u] EXCEPT !.pc = "done", !.result = result]
  <2>2. use' = [use EXCEPT ![u] = x]
    BY <2>1 DEF Inv, TypeOK
  <2>3. /\ x \in UseRecord(Len(clients)) /\ x.pc = "done" /\ x.kind = use[u].kind
        /\ x.scope = use[u].scope /\ x.value = use[u].value
    BY <1>1 DEF UseRecord
  <2> HIDE DEF x
  <2>4. Private(x)
    BY <1>1, <2>3 DEF Private
  <2> QED
    BY <1>2, <2>2, <2>3, <2>4, SlotStays
<1> QED
  BY <1>3, <1>4

\* The requests stay; the slot or a client may change.
LEMMA SlotMoves ==
  ASSUME Inv, ConfigStays, UNCHANGED <<use, published>>, Grown, SlotFits',
         slot'.key \in GroupValues, slot'.client \in 0..Len(clients'),
         clients' \in Seq(ClientRecord)
  PROVE  Inv'
<1>1. ConfigTypes /\ Current' /\ TablesPublished' /\ group' = group
  BY ConfigKept
<1>2. Len(clients) \in Nat /\ Len(clients') \in Nat
  BY SeqTypes, LenProperties DEF Inv
<1>3. \A u \in Uses : UseFits(use[u])'
  BY <1>1, <1>2, UseStays DEF Inv
<1>4. UseRecord(Len(clients)) \subseteq UseRecord(Len(clients'))
  BY <1>2 DEF UseRecord, Grown
<1>5. use \in [Uses -> UseRecord(Len(clients))]
  BY DEF Inv, TypeOK, UseRecord
<1>6. ClientTypes
  BY <1>4, <1>5 DEF ClientTypes, Inv, TypeOK
<1>7. PreviewsArePrivate'
  BY <1>1 DEF Inv, PreviewsArePrivate
<1> QED
  BY <1>1, <1>3, <1>6, <1>7, Assemble DEF Inv, ClientsFit

LEMMA ResolvePreserves ==
  ASSUME Inv, NEW i \in 1..Len(clients), Resolve(i) \/ ImportFails(i)
  PROVE  Inv'
<1>1. ConfigStays /\ UNCHANGED <<use, published, slot>>
  BY ConfigAssumption
     DEF Resolve, ImportFails, configVars, ConfigStays, Inv, TypeOK, ConfigAssumption
<1>2. PICK state \in {"ready", "rejected"} : clients' = [clients EXCEPT ![i].state = state]
  BY DEF Resolve, ImportFails
<1> DEFINE new == [clients[i] EXCEPT !.state = state]
<1>3. clients \in Seq(ClientRecord) /\ clients[i] \in ClientRecord /\ Len(clients) \in Nat
  BY SeqTypes DEF Inv
<1>4. new \in ClientRecord /\ new.cfg = clients[i].cfg
  BY <1>3 DEF ClientRecord
<1>5. clients' = [clients EXCEPT ![i] = new]
  BY <1>2, <1>3
<1> HIDE DEF new
<1>6. /\ clients' \in Seq(ClientRecord) /\ Len(clients') = Len(clients)
      /\ \A j \in 1..Len(clients) : clients'[j] = IF j = i THEN new ELSE clients[j]
  BY <1>3, <1>4, <1>5, ExceptSeq
<1>7. Grown
  BY <1>3, <1>4, <1>6 DEF Grown
<1>8. SlotFits'
  <2>1. slot.client \in 0..Len(clients)
    BY DEF Inv, TypeOK
  <2> QED
    BY <1>1, <1>3, <1>7, <2>1 DEF SlotFits, Serves, Inv, ClientsFit, Grown, ConfigStays
<1> QED
  BY <1>1, <1>6, <1>7, <1>8, SlotMoves DEF Inv, TypeOK

LEMMA HookPreserves ==
  ASSUME Inv, NEW secret \in Texts, NEW path \in Scopes, ReceiveHook(secret, path)
  PROVE  Inv'
<1>1. ConfigStays /\ UNCHANGED <<use, published>> /\ group = "stripe"
  BY CountedStays DEF ReceiveHook
<1>2. PICK row \in Candidates(path) : GetClient(StripeClientKey(row.value))
  BY DEF ReceiveHook
<1>3. row \in Rows /\ HasStripeConfig(row.value)
  BY SentType DEF Candidates, Inv
<1>4. StripeClientKey(row.value) \in GroupValues
  <2>1. row.value \in GroupValues /\ {"ACCOUNT"} \subseteq DOMAIN row.value
    BY <1>3 DEF Rows, HasStripeConfig, Set
  <2> QED
    BY <2>1, RestrictType DEF StripeClientKey
<1> QED
  BY <1>1, <1>2, <1>4, GetClientFits, SlotMoves DEF Inv, ClientsFit, ConfigStays

LEMMA InvStep == Inv /\ [Next]_vars => Inv'
<1> SUFFICES ASSUME Inv, [Next]_vars PROVE Inv'
  OBVIOUS
<1>1. CASE UNCHANGED vars
  <2>1. ConfigStays /\ UNCHANGED <<slot, clients, use, published>>
    BY <1>1 DEF vars, configVars, clientVars, ConfigStays, Inv, TypeOK
  <2>2. Grown /\ clients' \in Seq(ClientRecord)
    BY <2>1, SeqTypes DEF Grown, Inv
  <2>3. SlotFits' /\ slot'.key \in GroupValues /\ slot'.client \in 0..Len(clients')
    BY <2>1 DEF Inv, ClientsFit, SlotFits, Serves, ConfigStays, TypeOK
  <2> QED
    BY <2>1, <2>2, <2>3, SlotMoves
<1>2. CASE Next
  BY <1>2, ConfigStepPreserves, CrashPreserves, BeginPreserves, ServePreserves,
     ResolvePreserves, HookPreserves DEF Next, UseStep
<1> QED
  BY <1>1, <1>2

-----------------------------------------------------------------------------
\* Every variable of ProviderClients has its type; in particular patches of forms and
\* set-ups, merged into what is cached, hold fields of their group only.
THEOREM TypeCorrect == Spec => []TypeOK
<1>1. Inv => TypeOK
  BY DEF Inv
<1> QED
  BY <1>1, InitInv, InvStep, PTL DEF Spec

\* The caches are the table whenever nothing is in flight, unless calls overlapped or
\* failed half-way (reloadCache after every write).
THEOREM CacheIsCurrent == Spec => []CacheFollowsTable
<1>1. Inv => CacheFollowsTable
  BY DEF Inv, Current, CacheFollowsTable
<1> QED
  BY <1>1, InitInv, InvStep, PTL DEF Spec

\* A request runs on a client of the configuration it asked for (getClient of the
\* adapters), whatever configurations have been in the slot meanwhile.
THEOREM ClientsAreOwn == Spec => []OwnClient
<1>1. Inv => OwnClient
  BY DEF Inv, ClientsFit, UseFits, Serves, OwnClient
<1> QED
  BY <1>1, InitInv, InvStep, PTL DEF Spec

\* A preview is seen by its own request to the end, and by no order or notification
\* (runWithPreview).
THEOREM PreviewsStayPrivate == Spec => []PreviewsArePrivate
<1>1. Inv => PreviewsArePrivate
  BY DEF Inv
<1> QED
  BY <1>1, InitInv, InvStep, PTL DEF Spec

\* A publication never deletes a draft other than the one it published, unless the cache
\* was behind (activateConfig).
THEOREM DraftsPublished == Spec => DraftsArePublished
<1>1. ASSUME Inv, NEW c \in Calls, Retire(c), ~suspect
      PROVE  table'[call[c].scope]["active"] = table[call[c].scope]["draft"]
  <2>1. call[c].pc = "retire" /\ call[c].scope \in Scopes /\ table \in [Scopes -> [Stages -> Rows]]
    BY <1>1 DEF Retire, Statement, Inv, TypeOK, Tables
  <2>2. table'[call[c].scope]["active"] = table[call[c].scope]["active"]
    BY <1>1, <2>1 DEF Retire, Statement, Stages
  <2> QED
    BY <1>1, <2>1, <2>2 DEF Inv, Current
<1>2. Inv => [\A c \in Calls : Retire(c) /\ ~suspect =>
                table'[call[c].scope]["active"] = table[call[c].scope]["draft"]]_vars
  BY <1>1
<1> QED
  BY <1>2, InitInv, InvStep, PTL DEF Spec, DraftsArePublished
=============================================================================
