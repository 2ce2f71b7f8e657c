--------------------------- MODULE ProviderClients ---------------------------
(***************************************************************************)
(* Calls to the payment providers and webhooks from them, made with the    *)
(* configuration of PlatformConfig: the one client slot each adapter keeps *)
(* for all scopes, the promise cached in it, the validation of a value     *)
(* that is not saved yet, and the settings that are read again after an    *)
(* await (adapters/, stripe-client.service.ts, admin.service.ts,           *)
(* merchant-platform-config.service.ts).                                   *)
(***************************************************************************)
EXTENDS PlatformConfig, Sequences

CONSTANTS
  Uses,          \* requests that need a provider: orders, notifications and validations
  Texts          \* the texts of the fields

\* The values a group may hold.
Settings(g, texts) == UNION {[D -> texts] : D \in SUBSET Fields(g)}

ASSUME UsesAssumption ==
  /\ Null \notin Texts /\ {Broken, "KEY", "CERT"} \subseteq Texts

ASSUME SettingsAssumption ==
  \A g \in Groups :
    /\ Typed[g] \subseteq Settings(g, Texts \cup {Null})
    /\ Setups[g] \subseteq {config \in Settings(g, Texts \cup {Null}) : "ACCOUNT" \in DOMAIN config}
    /\ Published[g] \subseteq [Scopes -> Settings(g, Texts)]

VARIABLES
  slot,       \* the adapter's clientCacheKey and clientPromise (an index of clients)
  clients,    \* the clients created in this process: configuration and state
  use,        \* the requests being served
  published   \* history: the values that have been active, by scope

clientVars == <<slot, clients, use, published>>
vars == <<configVars, clientVars>>

NoClient == [key |-> NoValue, client |-> 0]

\* asked: the client configuration read when the use began; value: the group it was
\* read from; verify: whether the answer's signature will be checked.
IdleUse == [pc |-> "idle", kind |-> "none", scope |-> Global, value |-> NoValue,
            asked |-> NoValue, client |-> 0, verify |-> FALSE, result |-> "none"]

-----------------------------------------------------------------------------
(* getClient: the slot is kept when it is there and its key matches. *)

AnyClient(cfg) == slot.client # 0   \* mutant: the slot has no key

Matches(cfg) == slot.client # 0 /\ slot.key = cfg

NewSlot(cfg, state) ==
  /\ clients' = Append(clients, [cfg |-> cfg, state |-> state])
  /\ slot' = [key |-> cfg, client |-> Len(clients')]

\* The adapter keeps the promise of a client: its SDK is imported first.
NewAlipayClient(cfg) == group = "alipay" /\ NewSlot(cfg, "pending")

\* The adapter has already taken the new key when the constructor throws.
NewWechatPayClient(cfg) ==
  /\ group = "wechatpay"
  /\ IF Buildable(group, cfg)
     THEN NewSlot(cfg, "ready")
     ELSE slot' = [slot EXCEPT !.key = cfg] /\ UNCHANGED clients

NewStripeClient(cfg) == group = "stripe" /\ NewSlot(cfg, "ready")

NewClient(cfg) == NewAlipayClient(cfg) \/ NewWechatPayClient(cfg) \/ NewStripeClient(cfg)

GetClient(cfg) == IF Matches(cfg) THEN UNCHANGED <<slot, clients>> ELSE NewClient(cfg)

Throws(cfg) == ~Matches(cfg) /\ group = "wechatpay" /\ ~Buildable(group, cfg)

Answered(kind, s, v, result) ==
  [IdleUse EXCEPT !.pc = "done", !.kind = kind, !.scope = s, !.value = v, !.result = result]

\* The adapter's entry: the configuration is complete or nothing is asked of the
\* provider; then the client of exactly this configuration is awaited.
Enter(u, kind, s, v, disabled) ==
  LET cfg == ClientConfig(group, v)
  IN  IF ~IsEnabled(group, v)
      THEN /\ use' = [use EXCEPT ![u] = Answered(kind, s, v, disabled)]
           /\ UNCHANGED <<slot, clients>>
      ELSE /\ GetClient(cfg)
           /\ use' = [use EXCEPT ![u] =
                IF Throws(cfg)
                THEN [Answered(kind, s, v, "FAILED") EXCEPT !.asked = cfg]
                ELSE [IdleUse EXCEPT !.pc = "await", !.kind = kind, !.scope = s,
                                     !.value = v, !.asked = cfg, !.client = slot'.client]]

Counted ==
  /\ begun < MaxCalls
  /\ begun' = begun + 1
  /\ UNCHANGED <<group, table, cache, up, masterKey, call, faults, suspect>>

Starts(u) ==
  /\ up /\ use[u].pc \in {"idle", "done"}
  /\ Counted
  /\ UNCHANGED published

\* createSession, queryOrder, closeOrder, refundOrder of the registry: the scope of
\* the order's application is set for the whole call.
BeginOrder(u, s) ==
  /\ Starts(u)
  /\ Readable(ActiveRow(s))
  /\ group \in {"alipay", "wechatpay", "stripe"}
  /\ Enter(u, "order", s, ActiveRow(s).value, "UNAVAILABLE")

\* validate*PlatformConfig: the form's value over the editable one as a preview of
\* this request alone, or the active value when the form sent none.
BeginValidate(u, kind, s, v) ==
  /\ Starts(u)
  /\ IF group \in {"alipay", "wechatpay", "stripe"}
     THEN Enter(u, kind, s, v, "FAILED")
     ELSE /\ use' = [use EXCEPT ![u] = Answered(kind, s, v, "UNSUPPORTED")]
          /\ UNCHANGED <<slot, clients>>

ValidatePreview(u, s, patch) ==
  Readable(EditableRow(s)) /\ BeginValidate(u, "preview", s, PreviewValue(s, patch))

ValidateActive(u, s) ==
  Readable(ActiveRow(s)) /\ BeginValidate(u, "active", s, ActiveRow(s).value)

\* handleAlipayNotify and handleWechatPayNotify: a notification is verified in the scope
\* of its path or of its order; without settings to verify it with it is refused.
BeginNotify(u, s) ==
  /\ Starts(u)
  /\ Readable(ActiveRow(s))
  /\ group \in {"alipay", "wechatpay"}
  /\ Enter(u, "notify", s, ActiveRow(s).value, "FAILED")

\* The import and the constructor settle the promise for everyone who awaits it.
Resolve(i) ==
  /\ clients[i].state = "pending"
  /\ clients' = [clients EXCEPT ![i].state =
                   IF Buildable(group, clients[i].cfg) THEN "ready" ELSE "rejected"]
  /\ UNCHANGED <<configVars, slot, use, published>>

ImportFails(i) ==
  /\ clients[i].state = "pending"
  /\ faults < MaxFaults
  /\ faults' = faults + 1
  /\ clients' = [clients EXCEPT ![i].state = "rejected"]
  /\ UNCHANGED <<group, table, cache, up, masterKey, call, begun, suspect,
                 slot, use, published>>

CachedValue(u) == ActiveRow(use[u].scope).value   \* mutant: previews end at the first await

\* The settings a use reads later on: its own preview for as long as the request
\* lasts (the preview context follows its awaits), else what the cache holds by then.
CurrentValue(u) ==
  IF use[u].kind = "preview" THEN use[u].value ELSE ActiveRow(use[u].scope).value

\* The awaited client goes to work; whether its answer will be verified is read now.
Execute(u) ==
  /\ use[u].pc = "await" /\ use[u].kind # "notify"
  /\ clients[use[u].client].state = "ready"
  /\ use' = [use EXCEPT ![u].pc = "exec",
               ![u].verify = group # "alipay" \/ HasAlipayVerifyConfig(CurrentValue(u))]
  /\ UNCHANGED <<configVars, slot, clients, published>>

\* The client checks a notification on the spot.
VerifyNotify(u) ==
  /\ use[u].pc = "await" /\ use[u].kind = "notify"
  /\ clients[use[u].client].state = "ready"
  /\ use' = [use EXCEPT ![u].pc = "done",
               ![u].result = IF Verifies(group, clients[use[u].client].cfg)
                             THEN "SUCCESS" ELSE "FAILED"]
  /\ UNCHANGED <<configVars, slot, clients, published>>

AwaitFails(u) ==
  /\ use[u].pc = "await"
  /\ clients[use[u].client].state = "rejected"
  /\ use' = [use EXCEPT ![u].pc = "done", ![u].result = "FAILED"]
  /\ UNCHANGED <<configVars, slot, clients, published>>

\* The answer of the provider to the client that asked.
Answer(u) ==
  /\ use[u].pc = "exec"
  /\ use' = [use EXCEPT ![u].pc = "done",
               ![u].result = IF Probe(group, clients[use[u].client].cfg, use[u].verify)
                             THEN "SUCCESS" ELSE "FAILED"]
  /\ UNCHANGED <<configVars, slot, clients, published>>

-----------------------------------------------------------------------------
(* constructWebhookEvent: on an application's path the settings in force for it
   are tried, on the shared path every published group that is complete; the event
   is accepted when one of them carries the secret it was signed with. *)

Candidates(path) ==
  {row \in IF path # Global THEN {ActiveRow(path)} ELSE ActiveRows :
     HasStripeConfig(row.value)}

\* Trying a candidate puts its client in the slot; the last one tried stays there.
ReceiveHook(secret, path) ==
  LET tried   == Candidates(path)
      signers == {row \in tried : row.value["KEY"] = secret}
  IN  /\ up /\ group = "stripe"
      /\ Counted
      /\ tried # {} /\ \A row \in tried : Readable(row)
      /\ \E row \in IF signers # {} THEN signers ELSE tried :
           GetClient(StripeClientKey(row.value))
      /\ UNCHANGED <<use, published>>

-----------------------------------------------------------------------------
Init ==
  /\ ConfigInit
  /\ slot = NoClient /\ clients = <<>>
  /\ use = [u \in Uses |-> IdleUse]
  /\ published = [s \in Scopes |-> {table[s]["active"].value}]

ConfigStep ==
  /\ \/ \E c \in Calls : CallStep(c)
     \/ Restart
  /\ published' = [s \in Scopes |-> published[s] \cup {table'[s]["active"].value}]
  /\ UNCHANGED <<slot, clients, use>>

CrashOfClients ==   \* mutant: the requests outlive the clients they await
  /\ Crash
  /\ slot' = NoClient /\ clients' = <<>>
  /\ UNCHANGED <<use, published>>

\* The slot and the requests die with the process.
CrashStep ==
  /\ Crash
  /\ slot' = NoClient /\ clients' = <<>>
  /\ use' = [u \in Uses |-> IdleUse]
  /\ UNCHANGED published

UseStep(u) ==
  \/ \E s \in Scopes : \/ BeginOrder(u, s)
                       \/ BeginNotify(u, s)
                       \/ ValidateActive(u, s)
                       \/ \E patch \in Sent(s) : ValidatePreview(u, s, patch)
  \/ Execute(u) \/ VerifyNotify(u) \/ AwaitFails(u) \/ Answer(u)

Next ==
  \/ ConfigStep
  \/ CrashStep
  \/ \E u \in Uses : UseStep(u)
  \/ \E i \in 1..Len(clients) : Resolve(i) \/ ImportFails(i)
  \/ \E secret \in Texts, path \in Scopes : ReceiveHook(secret, path)

Spec == Init /\ [][Next]_vars

-----------------------------------------------------------------------------
(* Properties. *)

GroupValues == Settings(group, Texts)

Rows == [value : GroupValues, key : MasterKeys \cup {NoKey}]

Tables == [Scopes -> [Stages -> Rows]]

CallStates == {"idle", "writeDraft", "dropDraft", "publish", "retire", "clear", "reload", "apply"}

\* Every variable has its type: the rows of the table and of the caches hold only
\* fields of their group, and a use awaits a client that was created.
TypeOK ==
  /\ group \in Groups /\ table \in Tables /\ cache \in Tables
  /\ up \in BOOLEAN /\ suspect \in BOOLEAN
  /\ masterKey \in MasterKeys \cup {NoKey}
  /\ call \in [Calls -> [pc : CallStates, scope : Scopes, row : Rows, snap : Tables]]
  /\ begun \in 0..MaxCalls /\ faults \in 0..MaxFaults
  /\ slot.key \in GroupValues /\ slot.client \in 0..Len(clients)
  /\ clients \in Seq([cfg : GroupValues, state : {"pending", "ready", "rejected"}])
  /\ use \in [Uses -> [pc : {"idle", "await", "exec", "done"},
                       kind : {"none", "order", "notify", "active", "preview"}, scope : Scopes,
                       value : GroupValues, asked : GroupValues, client : 0..Len(clients),
                       verify : BOOLEAN,
                       result : {"none", "UNAVAILABLE", "UNSUPPORTED", "FAILED", "SUCCESS"}]]
  /\ published \in [Scopes -> SUBSET GroupValues]

\* What the process answers from is what the table holds, whenever no request is in
\* flight, unless two requests overlapped (the reload that read first may be applied
\* last) or one failed after its first statement, and nothing has settled it since.
CacheFollowsTable == up /\ InFlight = {} /\ ~suspect => cache = table

\* A saved draft leaves the table in two ways: it was published as it is, or an
\* administrator replaced or cleared it; publication never loses a newer draft,
\* unless the cache it was taken from was behind the table.
DraftsArePublished ==
  [][\A c \in Calls : Retire(c) /\ ~suspect =>
       table'[call[c].scope]["active"] = table[call[c].scope]["draft"]]_vars

\* Although one slot serves every scope, every preview and every order at once, a
\* request runs on a client of the configuration it asked for; the exception is a
\* WeChat Pay configuration no client can be built from.
OwnClient ==
  \A u \in Uses : use[u].pc \in {"await", "exec"} =>
    \/ clients[use[u].client].cfg = use[u].asked
    \/ group = "wechatpay" /\ ~Buildable(group, use[u].asked)

\* A preview governs its own request to the end and no other: orders and notifications
\* run on values that have been published for their application or for all, and the answer to
\* a validation is verified as the validated value says.
PreviewsArePrivate ==
  \A u \in Uses :
    /\ use[u].kind \in {"order", "notify"} =>
         use[u].value \in published[use[u].scope] \cup published[Global]
    /\ use[u].kind = "preview" /\ use[u].pc = "exec" /\ group = "alipay" =>
         use[u].verify = HasAlipayVerifyConfig(use[u].value)

\* "Validate whether a platform config is effective": a configuration is reported
\* valid only if a client can be built from it and the provider knows the account.
ValidatedIsEffective ==
  \A u \in Uses :
    use[u].kind \in {"active", "preview"} /\ use[u].result = "SUCCESS" =>
      Buildable(group, use[u].asked) /\ use[u].asked["ACCOUNT"] # Broken
=============================================================================
