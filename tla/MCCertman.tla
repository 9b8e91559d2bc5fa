----------------------------- MODULE MCCertman -----------------------------
(***************************************************************************)
(* Certman for TLC.  Names has a --name value (n3) that no entry has.     *)
(* Lifetimes are scaled down: a certificate lives 3 days, certbot renews  *)
(* within 2, check warns within 2 and asks for a forced renewal within 1: *)
(* issued on day 0 it is ok on day 0, warn and due on day 1, force-renew  *)
(* on days 2 and 3 and expired after.                                      *)
(************************************************************************)
EXTENDS Certman

CONSTANTS n1, n2, n3, d1, d2, a1, l1, l2

NoCred == [form |-> "none", text |-> NoKey]

\* lifecycle: two aliyun entries, one through the account convention and
\* one with an embedded literal id and secret
MCEntries ==
    << [name |-> n1, domain |-> d1, provider |-> "aliyun", account |-> a1,
        creds |-> [id |-> NoCred, secret |-> NoCred, token |-> NoCred]],
       [name |-> n2, domain |-> d2, provider |-> "aliyun", account |-> NoAccount,
        creds |-> [id |-> [form |-> "plain", text |-> l1],
                   secret |-> [form |-> "plain", text |-> l2],
                   token |-> NoCred]] >>

\* check_policy: an aliyun entry and a cloudflare entry with literal
\* credentials, which new refuses and renew prepares aliyun files for
MCMixedEntries ==
    << [name |-> n1, domain |-> d1, provider |-> "aliyun", account |-> a1,
        creds |-> [id |-> NoCred, secret |-> NoCred, token |-> NoCred]],
       [name |-> n2, domain |-> d2, provider |-> "cloudflare", account |-> NoAccount,
        creds |-> [id |-> [form |-> "plain", text |-> l1],
                   secret |-> [form |-> "plain", text |-> l2],
                   token |-> NoCred]] >>

\* a template entry: no account and no credentials, which the validator
\* lets through
MCTemplateEntries ==
    << [name |-> n1, domain |-> d1, provider |-> "aliyun", account |-> a1,
        creds |-> [id |-> NoCred, secret |-> NoCred, token |-> NoCred]],
       [name |-> n2, domain |-> d2, provider |-> "aliyun", account |-> NoAccount,
        creds |-> [id |-> NoCred, secret |-> NoCred, token |-> NoCred]] >>

\* two entries of one account, the second with its own literal key pair
MCSharedAccountEntries ==
    << [name |-> n1, domain |-> d1, provider |-> "aliyun", account |-> a1,
        creds |-> [id |-> NoCred, secret |-> NoCred, token |-> NoCred]],
       [name |-> n2, domain |-> d2, provider |-> "aliyun", account |-> a1,
        creds |-> [id |-> [form |-> "plain", text |-> l1],
                   secret |-> [form |-> "plain", text |-> l2],
                   token |-> NoCred]] >>

\* two entries of one name (an item file defaulting its name to one the
\* global config has), with different primary domains
MCDuplicateEntries ==
    << [name |-> n1, domain |-> d1, provider |-> "aliyun", account |-> a1,
        creds |-> [id |-> NoCred, secret |-> NoCred, token |-> NoCred]],
       [name |-> n1, domain |-> d2, provider |-> "aliyun", account |-> NoAccount,
        creds |-> [id |-> [form |-> "plain", text |-> l1],
                   secret |-> [form |-> "plain", text |-> l2],
                   token |-> NoCred]] >>

\* an entry with a literal access_key_id and no secret, and no account
MCPartialCredEntries ==
    << [name |-> n1, domain |-> d1, provider |-> "aliyun", account |-> NoAccount,
        creds |-> [id |-> [form |-> "plain", text |-> l1], secret |-> NoCred,
                   token |-> NoCred]],
       [name |-> n2, domain |-> d2, provider |-> "aliyun", account |-> a1,
        creds |-> [id |-> NoCred, secret |-> NoCred, token |-> NoCred]] >>

\* no lineage yet
MCNoLive == [d \in Domains |-> [gen |-> 0, notAfter |-> 0]]

\* a lineage of d2 issued before the configuration gave its entry the name
\* of another one
MCLiveD2 == [MCNoLive EXCEPT ![d2] = [gen |-> 1, notAfter |-> Validity]]

\* the certificate and its key: enough for a half-done export to show
MCExportFiles == <<"cert.pem", "privkey.pem">>

MCOneFile == <<"fullchain.pem">>

=============================================================================
