--------------------------- MODULE ProviderConfig ---------------------------
(***************************************************************************)
(* What a group of provider settings means: which of its fields are        *)
(* secret, when it is complete, and which of them a client is built from   *)
(* (channel-provider-config.service.ts, platform-config.constants.ts).     *)
(*                                                                         *)
(* A group's value is a function from the fields that are set to their     *)
(* texts.  Fields the code always asks for together are one field here:    *)
(*   ACCOUNT  the identity and its private key (Alipay: app id, private    *)
(*            key, gateway; WeChat Pay: app id, merchant id, serial        *)
(*            number, API v3 key, private key; Stripe: the secret key;     *)
(*            PayPal: client id and secret)                                *)
(*   KEY      the provider's public key (Stripe: the webhook secret)       *)
(*   CERT     the certificates of certificate mode                         *)
(*   MODE     how the provider is authenticated, when chosen explicitly    *)
(***************************************************************************)
EXTENDS Functions

CONSTANT Broken    \* a text no client can be built from, or that no provider accepts

Groups == {"alipay", "wechatpay", "stripe", "paypal", "platform"}

AlipayFields == {"MODE", "ACCOUNT", "KEY", "CERT"}

WechatPayFields == {"MODE", "ACCOUNT", "KEY", "CERT"}

StripeFields == {"ACCOUNT", "KEY"}

PaypalFields == {"ACCOUNT"}

\* The platform's own settings; of them only the signing secret matters here.
PlatformFields == {"ACCOUNT"}

Fields(g) ==
  CASE g = "alipay"    -> AlipayFields
    [] g = "wechatpay" -> WechatPayFields
    [] g = "stripe"    -> StripeFields
    [] g = "paypal"    -> PaypalFields
    [] OTHER           -> PlatformFields

SecretFields(g) == IF g = "stripe" THEN StripeFields ELSE {"ACCOUNT"}

Set(v, f) == f \in DOMAIN v

\* resolveAlipayAuthMode: the explicit mode, else certificates when any are there.
AlipayMode(v) ==
  IF Set(v, "MODE") THEN v["MODE"] ELSE IF Set(v, "CERT") THEN "CERT" ELSE "KEY"

\* resolveWechatPayVerifyMode decides alike.
WechatPayMode(v) ==
  IF Set(v, "MODE") THEN v["MODE"] ELSE IF Set(v, "CERT") THEN "CERT" ELSE "KEY"

HasAlipayConfig(v) == Set(v, "ACCOUNT") /\ (AlipayMode(v) = "CERT" => Set(v, "CERT"))

HasWechatPayConfig(v) == Set(v, "ACCOUNT") /\ Set(v, WechatPayMode(v))

HasStripeConfig(v) == Set(v, "ACCOUNT") /\ Set(v, "KEY")

HasPaypalConfig(v) == Set(v, "ACCOUNT")

\* isEnabled of the four adapters.
IsEnabled(g, v) ==
  \/ g = "alipay"    /\ HasAlipayConfig(v)
  \/ g = "wechatpay" /\ HasWechatPayConfig(v)
  \/ g = "stripe"    /\ HasStripeConfig(v)
  \/ g = "paypal"    /\ HasPaypalConfig(v)

\* The signature of an Alipay answer is checked only when its key is configured.
HasAlipayVerifyConfig(v) == Set(v, AlipayMode(v))

\* getAlipaySdkConfig: the account and what the mode in force verifies with; the
\* other mode's material is left out.
AlipaySdkConfig(v) == Restrict(v, DOMAIN v \cap {"ACCOUNT", AlipayMode(v)})

\* getWechatPayClientConfig.
WechatPayClientConfig(v) == Restrict(v, DOMAIN v \cap {"ACCOUNT", WechatPayMode(v)})

\* Stripe's clients are told apart by their secret key alone.
StripeClientKey(v) == Restrict(v, {"ACCOUNT"})

\* What the adapter builds its client from, which is also what it remembers
\* the client under.
ClientConfig(g, v) ==
  CASE g = "alipay"    -> AlipaySdkConfig(v)
    [] g = "wechatpay" -> WechatPayClientConfig(v)
    [] OTHER           -> StripeClientKey(v)

\* The constructor of WechatPayClient parses every key it is given.
WechatPayParses(cfg) == Broken \notin Range(cfg)

\* AlipaySdk parses its certificates only.
AlipayParses(cfg) == Set(cfg, "CERT") => cfg["CERT"] # Broken

\* Whether a client can be constructed; Stripe's always can.
Buildable(g, cfg) ==
  /\ g = "wechatpay" => WechatPayParses(cfg)
  /\ g = "alipay" => AlipayParses(cfg)

(* What the probe of validateConfig finds.  external: the provider knows the account
   or refuses it, and signs its answers with the key the good material is for. *)

\* alipay.trade.query on an order that does not exist, then the signed payment URLs;
\* the answer's signature counts only when the call was told to check it.
AlipayProbe(cfg, verify) ==
  cfg["ACCOUNT"] # Broken /\ (verify => Broken \notin Range(cfg))

\* verifyResponseSignatureIfPresent: the client checks every signed answer with the
\* material it was built from.
AnswersVerify(cfg) == \A f \in DOMAIN cfg \ {"ACCOUNT"} : cfg[f] # Broken

\* The same query.
WechatPayProbe(cfg) == cfg["ACCOUNT"] # Broken /\ AnswersVerify(cfg)

\* The balance of the account: the webhook secret is only looked at for its prefix.
StripeProbe(cfg) == cfg["ACCOUNT"] # Broken

Probe(g, cfg, verify) ==
  CASE g = "alipay"    -> AlipayProbe(cfg, verify)
    [] g = "wechatpay" -> WechatPayProbe(cfg)
    [] OTHER           -> StripeProbe(cfg)

(* Whether a notification the provider has signed passes the client. *)

\* checkNotifySignV2 needs the provider's key.
AlipayVerifies(cfg) == DOMAIN cfg # {"ACCOUNT"} /\ AnswersVerify(cfg)

\* verifyAndDecryptNotification: the payment itself is encrypted for the account.
WechatPayVerifies(cfg) == AnswersVerify(cfg) /\ cfg["ACCOUNT"] # Broken

Verifies(g, cfg) ==
  IF g = "alipay" THEN AlipayVerifies(cfg) ELSE WechatPayVerifies(cfg)

(* What the tools of the administrators send. *)

\* isConfigItemVisible: a form shows the material of the mode chosen in it.
Visible(g, f, mode) == g \in {"alipay", "wechatpay"} /\ f \in {"KEY", "CERT"} => f = mode

\* openEditModal: a form starts with the fields listed that are not secret and with
\* a mode; what the administrator types (or blanks: Blank) replaces that.
Filled(g, listed, typed, Blank) ==
  [f \in Fields(g) |->
     IF Set(typed, f) THEN typed[f]
     ELSE IF Set(listed, f) /\ f \notin SecretFields(g) THEN listed[f]
     ELSE IF f = "MODE" THEN AlipayMode(listed) ELSE Blank]

\* buildConfigPatch: a blank secret is left as it is, a blank or hidden field that is
\* configured is cleared.
FormPatch(g, listed, typed, Blank) ==
  LET form    == Filled(g, listed, typed, Blank)
      sent(f) == Set(form, "MODE") => Visible(g, f, form["MODE"])
      kept    == {f \in Fields(g) : sent(f) /\ form[f] # Blank}
      cleared == (DOMAIN listed \ kept) \ SecretFields(g)
  IN  [f \in kept \cup cleared |-> IF f \in kept THEN form[f] ELSE Blank]

\* hasMutation: a form that would change nothing is not saved.
HasMutation(g, listed, patch) ==
  \E f \in DOMAIN patch : Set(listed, f) /\ f \notin SecretFields(g) => patch[f] # listed[f]

\* serializeProviderConfig: a set-up from code names the mode and sends its material;
\* what an earlier mode left behind stays.
SetupPatch(g, config) ==
  IF g \in {"alipay", "wechatpay"}
  THEN LET mode == IF Set(config, "MODE") THEN config["MODE"] ELSE "KEY"
       IN  [f \in {"MODE", "ACCOUNT"} \cup (DOMAIN config \cap {mode}) |->
              IF f = "MODE" THEN mode ELSE config[f]]
  ELSE config
=============================================================================
