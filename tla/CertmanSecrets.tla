--------------------------- MODULE CertmanSecrets ---------------------------
(***************************************************************************)
(* Credential values, environment-variable references and the two places  *)
(* that interpret them: the secret validator behind `config-validate`      *)
(* (config.py, _required_env_keys / validate_required_secrets) and the     *)
(* aliyun credential resolver used by `new` and `renew`                    *)
(* (providers.py, aliyun_credentials_for_entry).                           *)
(*                                                                         *)
(* Strings are abstracted to what the two readers tell apart.  A          *)
(* credential field holds one of these forms:                              *)
(*   "none"     the field is absent or ""  (falsy in Python)               *)
(*   "plain"    a literal secret; text is the literal                      *)
(*   "ref"      "${K}": text is the variable K                             *)
(*   "emptyref" "${}": three characters, so _is_env_ref is false, while    *)
(*              _resolve_value still takes it for a reference to ""        *)
(*   "padref"   " ${K} ": _is_env_ref is false (no strip), while           *)
(*              _resolve_value strips it and looks K up                    *)
(* The environment is the set of variable names whose value is non-empty *)
(* (both readers test `not env.get(k)` / `not os.getenv(k)`).              *)
(* An account-convention variable CERTMAN_<P>_<acct>_<FIELD> is the tuple  *)
(* <<P, acct, FIELD>>.                                                      *)
(***************************************************************************)
EXTENDS Naturals, FiniteSets

CONSTANTS
    RefKeys,      \* variable names written as ${...} in credential fields
    Literals,     \* literal secrets written in credential fields
    Accounts,     \* account_id values
    NoAccount,    \* account_id absent or ""
    NoKey         \* the text of a field whose form carries none

ASSUME SecretsAssumption ==
    /\ NoAccount \notin Accounts
    /\ NoKey \notin RefKeys \cup Literals

CredForms == {"none", "plain", "ref", "emptyref", "padref"}

CredVal == [form : CredForms, text : RefKeys \cup Literals \cup {NoKey}]

\* CredentialsConfig: access_key_id, access_key_secret, api_token.
Credentials == [id : CredVal, secret : CredVal, token : CredVal]

KnownProviders == {"cloudflare", "route53", "aliyun"}

\* Fields of the account convention, per provider (config.py 124-136).
ProviderFields(p) ==
    CASE p = "cloudflare" -> {"API_TOKEN"}
      [] p = "route53"    -> {"ACCESS_KEY_ID", "SECRET_ACCESS_KEY", "REGION"}
      [] p = "aliyun"     -> {"ACCESS_KEY_ID", "ACCESS_KEY_SECRET"}
      [] OTHER            -> {}

ProviderPrefix(p) ==
    CASE p = "cloudflare" -> "CLOUDFLARE"
      [] p = "route53"    -> "AWS"
      [] OTHER            -> "ALIYUN"

AccountKeys(p, a) == {<<ProviderPrefix(p), a, f>> : f \in ProviderFields(p)}

EnvKeys ==
    RefKeys \cup UNION {AccountKeys(p, a) : p \in KnownProviders, a \in Accounts}

\* Python truthiness of a field value.
Truthy(v) == v.form # "none"

\* config.py _is_env_ref: starts with "${", ends with "}" and len > 3.
IsEnvRef(v) == v.form = "ref"

\* config.py _env_ref_key.
EnvRefKey(v) == v.text

(***************************************************************************)
(* _required_env_keys(entry, env) as a set, with err set when the         *)
(* provider is unknown on the account path (the ValueError).               *)
(***************************************************************************)
CredFields(c) == {c.id, c.secret, c.token}

MissingRefs(c, env) ==
    {EnvRefKey(v) : v \in {w \in CredFields(c) : Truthy(w) /\ IsEnvRef(w)}} \ env

HasAnyPlainCredential(c) ==
    \E v \in CredFields(c) : Truthy(v) /\ ~IsEnvRef(v)

RequiredEnvKeys(e, env) ==
    IF MissingRefs(e.creds, env) # {} \/ HasAnyPlainCredential(e.creds)
    THEN [err |-> FALSE, keys |-> MissingRefs(e.creds, env)]
    ELSE IF e.account = NoAccount
    THEN [err |-> FALSE, keys |-> {}]
    ELSE IF e.provider \notin KnownProviders
    THEN [err |-> TRUE, keys |-> {}]
    ELSE [err |-> FALSE, keys |-> AccountKeys(e.provider, e.account) \ env]

\* AppConfig.validate_required_secrets: OK iff no entry raises and the
\* union of the missing keys is empty.
ValidateRequiredSecrets(entries, env) ==
    LET rs == {RequiredEnvKeys(entries[i], env) : i \in DOMAIN entries}
    IN  [err  |-> \E r \in rs : r.err,
         keys |-> UNION {r.keys : r \in rs}]

ValidateOK(entries, env) ==
    LET v == ValidateRequiredSecrets(entries, env) IN ~v.err /\ v.keys = {}

(***************************************************************************)
(* providers.py _resolve_value and aliyun_credentials_for_entry.  A        *)
(* resolved secret is <<"lit", text>> or <<"env", K>> (the value of K).    *)
(***************************************************************************)
ResolveValue(v, env) ==
    CASE v.form \in {"ref", "padref"} ->
            [ok |-> v.text \in env, val |-> <<"env", v.text>>]
      [] v.form = "emptyref" ->
            [ok |-> FALSE, val |-> <<"env", NoKey>>]
      [] OTHER ->
            [ok |-> TRUE, val |-> <<"lit", v.text>>]

ResolvedVal == {"env", "lit"} \X (RefKeys \cup Literals \cup EnvKeys \cup {NoKey})

\* the two lines of an aliyun credentials .ini
CredContent == ResolvedVal \X ResolvedVal

AliyunCredentialsForEntry(e, env) ==
    IF Truthy(e.creds.id) /\ Truthy(e.creds.secret)
    THEN LET id == ResolveValue(e.creds.id, env)
             sk == ResolveValue(e.creds.secret, env)
         IN  [ok |-> id.ok /\ sk.ok, val |-> <<id.val, sk.val>>]
    ELSE IF e.account = NoAccount
    THEN [ok |-> FALSE, val |-> <<>>]
    ELSE LET ak == <<"ALIYUN", e.account, "ACCESS_KEY_ID">>
             sk == <<"ALIYUN", e.account, "ACCESS_KEY_SECRET">>
         IN  [ok |-> ak \in env /\ sk \in env,
              val |-> <<<<"env", ak>>, <<"env", sk>>>>]

\* cli.py _prepare_aliyun_credentials_ini: aliyun_{account_id or name}.ini
CredFileName(e) == IF e.account # NoAccount THEN e.account ELSE e.name

=============================================================================
