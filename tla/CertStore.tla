----------------------------- MODULE CertStore -----------------------------
(***************************************************************************)
(* What certman promises about the state it leaves on disk, whatever the  *)
(* commands, their failures and their interruptions: a certificate        *)
(* lineage only changes by certbot issuing its next generation, valid for *)
(* Validity days from today; a file of output/<name> only ever changes to *)
(* the current certificate of a primary domain that the configuration     *)
(* binds to that name.  Days pass.  Credentials, frames and exit codes do *)
(* not appear.                                                             *)
(***************************************************************************)
EXTENDS Naturals

CONSTANTS
    Names, Domains, Files,
    Bindings,    \* the <<name, primary domain>> pairs of the entries
    Validity, MaxGen, MaxDay,
    InitLive, NoFile

VARIABLES today, live, output

storeVars == <<today, live, output>>

Init ==
    /\ today = 0
    /\ live = InitLive
    /\ output = [n \in Names |-> [f \in Files |-> NoFile]]

\* certbot issues the next generation of the lineages in S at once
Issue(S) ==
    /\ \A d \in S : live[d].gen < MaxGen
    /\ live' = [d \in Domains |->
                  IF d \in S THEN [gen |-> live[d].gen + 1, notAfter |-> today + Validity]
                  ELSE live[d]]
    /\ UNCHANGED <<today, output>>

\* one file of a bound domain's current certificate is published
Publish(n, d, f) ==
    /\ live[d].gen > 0
    /\ output' = [output EXCEPT ![n][f] = [domain |-> d, gen |-> live[d].gen]]
    /\ UNCHANGED <<today, live>>

Tick ==
    /\ today < MaxDay
    /\ today' = today + 1
    /\ UNCHANGED <<live, output>>

Next ==
    \/ \E S \in SUBSET Domains : Issue(S)
    \/ \E b \in Bindings, f \in Files : Publish(b[1], b[2], f)
    \/ Tick

Spec == Init /\ [][Next]_storeVars

=============================================================================
