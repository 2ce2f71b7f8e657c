--------------------------- MODULE PlatformConfig ---------------------------
(***************************************************************************)
(* The platform configuration: the platform_config table, the two caches   *)
(* the API process answers from, and the calls that save, publish and      *)
(* clear a group of settings, one SQL statement at a time                  *)
(* (platform-config.service.ts).                                           *)
(*                                                                         *)
(* The groups never meet: every key of the table and of the caches names   *)
(* its group, so a behaviour follows one group, chosen when it starts.     *)
(***************************************************************************)
EXTENDS ProviderConfig, Naturals, FiniteSets

CONSTANTS
  Apps,          \* merchant applications with settings of their own
  Global,        \* the scope of the settings shared by all
  Calls,         \* requests of administrators being served
  Typed,         \* for each group, what an administrator may type into its form
  Setups,        \* for each group, the configurations a merchant's code sets up
  Published,     \* for each group, what may be published at the start, by scope
  Null,          \* a field a patch clears
  MasterKeys,    \* values of PLATFORM_CONFIG_MASTER_KEY
  NoKey,         \* no master key in the environment
  MaxCalls,      \* bound: requests that begin
  MaxFaults      \* bound: failed statements, failed imports and crashes

ASSUME ConfigAssumption ==
  /\ Global \notin Apps
  /\ NoKey \notin MasterKeys
  /\ MaxCalls \in Nat /\ MaxFaults \in Nat

VARIABLES
  group,      \* the group followed
  table,      \* platform_config: for each scope, the ACTIVE and the DRAFT row
  cache,      \* activeConfigCache and draftConfigCache
  up,         \* the API process is running
  masterKey,  \* the key the running process encrypts and decrypts with
  call,       \* the requests in flight
  begun,      \* requests begun so far
  faults,     \* faults so far
  suspect     \* history: the cache may be behind the table (see Suspect below)

configVars == <<group, table, cache, up, masterKey, call, begun, faults, suspect>>

Scopes == Apps \cup {Global}

Stages == {"active", "draft"}

NoValue == [f \in {} |-> Null]

\* A row: the texts of its group and the key its secret ones are encrypted
\* under.  A row without a text is not kept, and stands for no row at all.
NoRow == [value |-> NoValue, key |-> NoKey]

EmptyTable == [s \in Scopes |-> [stage \in Stages |-> NoRow]]

\* toStorageKey: the group's name, after the prefix of the application it is set for and
\* before the suffix of a draft.
StorageKey(s, stage) == [scope |-> s, group |-> group, stage |-> stage]

StorageKeys == {StorageKey(s, stage) : s \in Scopes, stage \in Stages}

\* parseStorageKey, given the application in the row's own column (Global when it is null):
\* the prefix of another application is not taken off, and what is left names no group; a
\* row without an application is read by its prefix.
ParseStorageKey(key, stored) ==
  IF key.group \in Groups /\ (stored = Global \/ key.scope \in {Global, stored})
  THEN {<<key.scope, key.stage>>}
  ELSE {}

\* The rows of a table, each filed in the caches under what its key is parsed to.
Filed(t) ==
  [s \in Scopes |-> [stage \in Stages |->
     LET key == CHOOSE k \in StorageKeys : <<s, stage>> \in ParseStorageKey(k, k.scope)
     IN  t[key.scope][key.stage]]]

HasSecret(v) == DOMAIN v \cap SecretFields(group) # {}

\* encryptSecretValue: with the process's key; without one a secret is stored in clear.
EncryptionKey == masterKey

\* toPersistedValue
ToPersisted(v) ==
  [value |-> v, key |-> IF HasSecret(v) THEN EncryptionKey ELSE NoKey]

\* decryptSecretValue throws on a text encrypted under another key; a text
\* stored in clear is read as it is.
Readable(row) == row.key \in {NoKey, masterKey}

\* get: the application's own group, whole, before the shared one.
ActiveRow(s) ==
  IF s # Global /\ cache[s]["active"] # NoRow
  THEN cache[s]["active"]
  ELSE cache[Global]["active"]

\* listResolvedActiveConfigGroups: what is in force anywhere.
ActiveRows == {cache[s]["active"] : s \in Scopes}

\* getEditableGroupValue: what a save starts from, in the scope of the save only.
EditableRow(s) ==
  IF cache[s]["draft"] # NoRow THEN cache[s]["draft"] ELSE cache[s]["active"]

\* mergeGroupValue: the patch's fields replace, add or (null, blank) remove.
Merge(v, patch) ==
  LET kept == {f \in DOMAIN v \cup DOMAIN patch : f \in DOMAIN patch => patch[f] # Null}
  IN  [f \in kept |-> IF f \in DOMAIN patch THEN patch[f] ELSE v[f]]

\* buildPreviewGroupValue, of a draft being saved or of a preview being validated.
PreviewValue(s, patch) == Merge(EditableRow(s).value, patch)

\* toAdminValue: a list shows which secrets are set, never their texts.
AdminValue(v) == [f \in DOMAIN v |-> IF f \in SecretFields(group) THEN Null ELSE v[f]]

\* The shared settings are edited in the forms of the console (the platform's own have
\* none), an application's by its merchant's code.
HasForm(s) == s = Global /\ group # "platform"

Sent(s) ==
  IF HasForm(s)
  THEN {FormPatch(group, AdminValue(EditableRow(s).value), typed, Null) : typed \in Typed[group]}
  ELSE {SetupPatch(group, config) : config \in Setups[group]}

-----------------------------------------------------------------------------
(* The calls. *)

Idle == [pc |-> "idle", scope |-> Global, row |-> NoRow, snap |-> EmptyTable]

InFlight == {c \in Calls : call[c].pc # "idle"}

\* The cache may differ from the table once calls have overlapped, or one has
\* failed between its first statement and the end of its reload; a reload that
\* ran with nothing else in flight, or a restart, settles it.
Begin(c, pc, s, row) ==
  /\ up /\ call[c].pc = "idle"
  /\ begun < MaxCalls
  /\ begun' = begun + 1
  /\ call' = [call EXCEPT ![c] = [Idle EXCEPT !.pc = pc, !.scope = s, !.row = row]]
  /\ suspect' = (suspect \/ InFlight # {})
  /\ UNCHANGED <<group, table, cache, up, masterKey, faults>>

\* upsertConfig: the patch is merged into the *cached* draft or active value
\* before the first await; a secret that cannot be decrypted refuses the save.
BeginUpsert(c, s, patch) ==
  LET merged == PreviewValue(s, patch)
  IN  /\ Readable(EditableRow(s))
      /\ HasForm(s) => HasMutation(group, EditableRow(s).value, patch)
      /\ IF DOMAIN merged = {}
         THEN Begin(c, "dropDraft", s, NoRow)
         ELSE Begin(c, "writeDraft", s, ToPersisted(merged))

ActivateInForce(c, s) ==   \* mutant: what is in force is published again
  /\ cache[s]["draft"] # NoRow
  /\ Begin(c, "publish", s, ActiveRow(s))

\* activateConfig: the draft of the *cache* is what will be published.
BeginActivate(c, s) ==
  /\ cache[s]["draft"] # NoRow
  /\ Begin(c, "publish", s, cache[s]["draft"])

BeginClear(c, s) == Begin(c, "clear", s, NoRow)

\* One statement of the call, on the row of one stage or on both.
Statement(c, from, stages, row, next) ==
  /\ call[c].pc = from
  /\ table' = [table EXCEPT ![call[c].scope] =
                 [stage \in Stages |-> IF stage \in stages THEN row ELSE @[stage]]]
  /\ call' = [call EXCEPT ![c].pc = next]
  /\ UNCHANGED <<group, cache, up, masterKey, begun, faults, suspect>>

WriteUnreloaded(c) ==   \* mutant: the caches are not reloaded after the write
  Statement(c, "writeDraft", {"draft"}, call[c].row, "idle")

WriteDraft(c) == Statement(c, "writeDraft", {"draft"}, call[c].row, "reload")

DropDraft(c) == Statement(c, "dropDraft", {"draft"}, NoRow, "reload")

Publish(c) == Statement(c, "publish", {"active"}, call[c].row, "retire")

Retire(c) == Statement(c, "retire", {"draft"}, NoRow, "reload")

Clear(c) == Statement(c, "clear", Stages, NoRow, "reload")

\* reloadCache: the table is read and its keys are parsed ...
ReadTable(c) ==
  /\ call[c].pc = "reload"
  /\ call' = [call EXCEPT ![c].pc = "apply", ![c].snap = Filed(table)]
  /\ UNCHANGED <<group, table, cache, up, masterKey, begun, faults, suspect>>

\* ... and what was read replaces both caches, whatever has happened meanwhile.
ApplyTable(c) ==
  /\ call[c].pc = "apply"
  /\ cache' = call[c].snap
  /\ call' = [call EXCEPT ![c] = Idle]
  /\ suspect' = (suspect /\ (InFlight # {c} \/ call[c].snap # table))
  /\ UNCHANGED <<group, table, up, masterKey, begun, faults>>

\* A statement or the reload fails: the call throws, what it wrote stays.
FailCall(c) ==
  /\ call[c].pc \notin {"idle", "apply"}
  /\ faults < MaxFaults
  /\ faults' = faults + 1
  /\ suspect' = (suspect \/ call[c].pc \in {"retire", "reload"})
  /\ call' = [call EXCEPT ![c] = Idle]
  /\ UNCHANGED <<group, table, cache, up, masterKey, begun>>

\* The process dies with everything it held in memory.
Crash ==
  /\ up /\ faults < MaxFaults
  /\ faults' = faults + 1
  /\ up' = FALSE
  /\ cache' = EmptyTable
  /\ call' = [c \in Calls |-> Idle]
  /\ UNCHANGED <<group, table, masterKey, begun, suspect>>

\* onModuleInit: nothing is served before the first reload; the process may have
\* been given another master key.
Restart ==
  /\ ~up
  /\ up' = TRUE
  /\ cache' = Filed(table)
  /\ masterKey' \in MasterKeys \cup {NoKey}
  /\ suspect' = FALSE
  /\ UNCHANGED <<group, table, call, begun, faults>>

ConfigInit ==
  /\ group \in Groups
  /\ masterKey \in MasterKeys
  /\ \E v \in Published[group] :
       table = [s \in Scopes |->
                  [stage \in Stages |-> IF stage = "active" THEN ToPersisted(v[s]) ELSE NoRow]]
  /\ cache = table
  /\ up = TRUE
  /\ call = [c \in Calls |-> Idle]
  /\ begun = 0 /\ faults = 0 /\ suspect = FALSE

CallStep(c) ==
  \/ \E s \in Scopes : \/ \E patch \in Sent(s) : BeginUpsert(c, s, patch)
                       \/ BeginActivate(c, s)
                       \/ BeginClear(c, s)
  \/ WriteDraft(c) \/ DropDraft(c) \/ Publish(c) \/ Retire(c) \/ Clear(c)
  \/ ReadTable(c) \/ ApplyTable(c)
  \/ FailCall(c)
=============================================================================
