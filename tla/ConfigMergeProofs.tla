-------------------------- MODULE ConfigMergeProofs --------------------------
(***************************************************************************)
(* Proofs about load_merged_config (ConfigMerge): the type invariant and  *)
(* that a configuration it returns is one the spec accepts.  That the     *)
(* returned entries are the spec's merge, in its order, is checked by TLC *)
(* only: it needs facts about the recursive function of Flatten and of    *)
(* SelectSeq for every length, that is, induction over data.              *)
(***************************************************************************)
EXTENDS ConfigMerge, SequenceTheorems, TLAPS

-----------------------------------------------------------------------------
(* Types                                                                   *)

\* The names of the listing and the parsed files are typed.
LEMMA PathsFacts ==
    /\ Len(Paths) \in Nat
    /\ \A i \in 1..Len(Paths) : Paths[i] \in ToSet(Paths)
    /\ GlobalFile \in ToSet(Paths)
    /\ \A p \in ToSet(Paths) : Stem[p] \in Names
BY ConfigMergeAssumption DEF ToSet

\* The dump of validated entries is a merged list.
LEMMA DumpType ==
    ASSUME NEW p \in ToSet(Paths), NEW es \in Seq(RawEntry),
           \A j \in DOMAIN es : es[j].name # NoName
    PROVE  Dump(p, es) \in Seq(MergedEntry)
<1>1. \A j \in 1..Len(es) : [name |-> es[j].name, src |-> p, valid |-> TRUE] \in MergedEntry
  <2>1. DOMAIN es = 1..Len(es) /\ \A j \in 1..Len(es) : es[j] \in RawEntry
    BY LenProperties, ElementOfSeq
  <2>2. QED
    BY <2>1 DEF RawEntry, MergedEntry
<1>2. Dump(p, es) = [j \in 1..Len(es) |-> [name |-> es[j].name, src |-> p, valid |-> TRUE]]
  BY DEF Dump
<1>3. Dump(p, es) \in [1..Len(es) -> MergedEntry] /\ Len(es) \in Nat
  BY <1>1, <1>2, LenProperties
<1>4. QED
  BY <1>3, SeqDef

\* The entry a single-entry file contributes is a merged entry.
LEMMA SingleEntryType ==
    ASSUME NEW p \in ToSet(Paths), NEW e \in RawEntry
    PROVE  SingleEntry(p, e) \in MergedEntry
BY PathsFacts DEF SingleEntry, RawEntry, MergedEntry

LEMMA InitTypeOK == Init => TypeOK
<1> SUFFICES ASSUME Init PROVE TypeOK
  OBVIOUS
<1>1. doc \in [matched \cup {GlobalFile} -> Doc]
  BY DocsAssumption DEF Init
<1>2. QED
  BY <1>1, PathsFacts, EmptySeq DEF Init, TypeOK

LEMMA NextTypeOK == TypeOK /\ [Next]_vars => TypeOK'
<1> SUFFICES ASSUME TypeOK, [Next]_vars PROVE TypeOK'
  OBVIOUS
<1>0. k \in Nat /\ Len(Paths) \in Nat
  BY PathsFacts DEF TypeOK
<1>1. CASE LoadGlobal
  <2>1. CASE AppConfigOK(doc[GlobalFile])
    <3>1. doc[GlobalFile] \in Doc
      BY DEF TypeOK
    <3>2. Dump(GlobalFile, doc[GlobalFile].entries) \in Seq(MergedEntry)
      BY <2>1, <3>1, PathsFacts, DumpType DEF AppConfigOK, Doc
    <3>3. QED
      BY <1>1, <2>1, <3>2 DEF LoadGlobal, TypeOK
  <2>2. CASE ~AppConfigOK(doc[GlobalFile])
    BY <1>1, <2>2 DEF LoadGlobal, TypeOK
  <2>3. QED
    BY <2>1, <2>2
<1>2. CASE GlobSkip \/ SkipItem
  <2>1. k <= Len(Paths) /\ k' = k + 1 /\ UNCHANGED <<matched, doc, pc, merged>>
    BY <1>2 DEF GlobSkip, SkipItem
  <2>2. QED
    BY <1>0, <2>1 DEF TypeOK
<1>3. CASE FullItem
  <2> DEFINE p == Paths[k]
  <2>1. k \in 1..Len(Paths) /\ p \in matched /\ p \in ToSet(Paths) /\ doc[p] \in Doc
    BY <1>0, <1>3, PathsFacts DEF FullItem, TypeOK
  <2>2. CASE AppConfigOK(doc[p])
    <3>1. Dump(p, doc[p].entries) \in Seq(MergedEntry)
      BY <2>1, <2>2, DumpType DEF AppConfigOK, Doc
    <3>2. merged \o Dump(p, doc[p].entries) \in Seq(MergedEntry)
      BY <3>1, ConcatProperties DEF TypeOK
    <3>3. /\ merged' = merged \o Dump(p, doc[p].entries) /\ k' = k + 1
          /\ UNCHANGED <<matched, doc, pc>>
      BY <1>3, <2>2 DEF FullItem
    <3>4. QED
      BY <1>0, <2>1, <3>2, <3>3 DEF TypeOK
  <2>3. CASE ~AppConfigOK(doc[p])
    BY <1>3, <2>3 DEF FullItem, TypeOK
  <2>4. QED
    BY <2>2, <2>3
<1>4. CASE SingleItem
  <2> DEFINE p == Paths[k]
  <2>1. k \in 1..Len(Paths) /\ p \in ToSet(Paths) /\ doc[p] \in Doc
    BY <1>0, <1>4, PathsFacts DEF SingleItem, TypeOK
  <2>2. SingleEntry(p, doc[p].single) \in MergedEntry
    BY <2>1, SingleEntryType DEF Doc
  <2>3. Append(merged, SingleEntry(p, doc[p].single)) \in Seq(MergedEntry)
    BY <2>2, AppendProperties DEF TypeOK
  <2>4. /\ merged' = Append(merged, SingleEntry(p, doc[p].single)) /\ k' = k + 1
        /\ UNCHANGED <<matched, doc, pc>>
    BY <1>4 DEF SingleItem
  <2>5. QED
    BY <1>0, <2>1, <2>3, <2>4 DEF TypeOK
<1>5. CASE Validate
  BY <1>5 DEF Validate, TypeOK
<1>6. CASE UNCHANGED vars
  BY <1>6 DEF vars, TypeOK
<1>7. QED
  BY <1>1, <1>2, <1>3, <1>4, <1>5, <1>6 DEF Next

(***************************************************************************)
(* The type invariant of the merge loop, for every directory listing and  *)
(* every set of parsed files: merged_entries is a list of entries with a  *)
(* name and a source file of the listing, whatever the files contain.     *)
(***************************************************************************)
THEOREM MergeTypeCorrect == Spec => []TypeOK
BY InitTypeOK, NextTypeOK, PTL DEF Spec


-----------------------------------------------------------------------------
(* What a successful load accepts                                          *)

\* every entry merged so far has its required fields
AllValid == \A j \in DOMAIN merged : merged[j].valid

\* load_config of the global file validated its entries (AppConfig)
GlobalEntriesOK ==
    \A j \in DOMAIN doc[GlobalFile].entries :
        doc[GlobalFile].entries[j].name # NoName /\ doc[GlobalFile].entries[j].valid

\* if every entry merged so far is valid, every item file the loop has
\* passed is one the spec accepts
ItemsBehindOK ==
    AllValid => \A m \in 1..(k - 1) : SpecItem(Paths[m]) => SpecValidDoc(doc[Paths[m]])

(***************************************************************************)
(* The invariant by which MergedAccepted holds.  A full item file is      *)
(* validated when it is read; a single-entry file is not, and only the    *)
(* final validation of the merged list finds an entry without its fields: *)
(* the invariant ties the validity of what the loop has appended to the   *)
(* files it has passed.  TLC checks it on the config_merge constants.     *)
(***************************************************************************)
AcceptInv ==
    /\ pc = "global" => k = 1
    /\ pc \in {"items", "done"} => GlobalEntriesOK /\ ItemsBehindOK
    /\ pc = "done" => k = Len(Paths) + 1 /\ AllValid

\* The entries of a concatenation are those of its two parts.
LEMMA ConcatAllValid ==
    ASSUME NEW s \in Seq(MergedEntry), NEW t \in Seq(MergedEntry),
           \A j \in DOMAIN (s \o t) : (s \o t)[j].valid
    PROVE  /\ \A j \in DOMAIN s : s[j].valid
           /\ \A j \in DOMAIN t : t[j].valid
<1>1. /\ DOMAIN (s \o t) = 1..(Len(s) + Len(t))
      /\ \A i \in 1..(Len(s) + Len(t)) :
            (s \o t)[i] = IF i <= Len(s) THEN s[i] ELSE t[i - Len(s)]
  BY ConcatProperties, LenProperties
<1>2. Len(s) \in Nat /\ Len(t) \in Nat /\ DOMAIN s = 1..Len(s) /\ DOMAIN t = 1..Len(t)
  BY LenProperties
<1>3. ASSUME NEW j \in DOMAIN t PROVE t[j].valid
  <2>1. j + Len(s) \in 1..(Len(s) + Len(t)) /\ ~(j + Len(s) <= Len(s))
    BY <1>2
  <2>2. (s \o t)[j + Len(s)] = t[j]
    BY <1>1, <1>2, <2>1
  <2>3. QED
    BY <1>1, <2>1, <2>2
<1>4. QED
  BY <1>1, <1>2, <1>3

\* The entries of an appended list are the old ones and the new one.
LEMMA AppendAllValid ==
    ASSUME NEW s \in Seq(MergedEntry), NEW e \in MergedEntry,
           \A j \in DOMAIN Append(s, e) : Append(s, e)[j].valid
    PROVE  (\A j \in DOMAIN s : s[j].valid) /\ e.valid
<1>1. /\ Append(s, e) \in Seq(MergedEntry)
      /\ Len(Append(s, e)) = Len(s) + 1
      /\ \A i \in 1..Len(s) : Append(s, e)[i] = s[i]
      /\ Append(s, e)[Len(s) + 1] = e
  BY AppendProperties
<1>2. Len(s) \in Nat /\ DOMAIN s = 1..Len(s)
      /\ DOMAIN Append(s, e) = 1..(Len(s) + 1)
  BY <1>1, LenProperties
<1>3. QED
  BY <1>1, <1>2


\* Each step of the merge loop keeps AcceptInv.
LEMMA AcceptInvStep ==
    ASSUME TypeOK, AcceptInv, [Next]_vars
    PROVE  AcceptInv'
<1>0. k \in Nat /\ Len(Paths) \in Nat /\ merged \in Seq(MergedEntry)
  BY PathsFacts DEF TypeOK
<1>1. CASE LoadGlobal
  <2>1. CASE AppConfigOK(doc[GlobalFile])
    <3>1. pc = "global" /\ pc' = "items" /\ k' = k /\ doc' = doc
      BY <1>1, <2>1 DEF LoadGlobal
    <3>2. k' = 1
      BY <3>1 DEF AcceptInv
    <3>3. GlobalEntriesOK'
      BY <2>1, <3>1 DEF AppConfigOK, GlobalEntriesOK
    <3>4. ItemsBehindOK'
      BY <3>2 DEF ItemsBehindOK
    <3>5. QED
      BY <3>1, <3>3, <3>4 DEF AcceptInv
  <2>2. CASE ~AppConfigOK(doc[GlobalFile])
    BY <1>1, <2>2 DEF LoadGlobal, AcceptInv
  <2>3. QED
    BY <2>1, <2>2
<1>2. CASE GlobSkip \/ SkipItem
  <2>1. /\ pc = "items" /\ k <= Len(Paths) /\ k' = k + 1
        /\ UNCHANGED <<matched, doc, pc, merged>>
        /\ ~SpecItem(Paths[k])
    BY <1>2 DEF GlobSkip, SkipItem, SpecItem
  <2>2. ItemsBehindOK'
    BY <1>0, <2>1 DEF AcceptInv, ItemsBehindOK, AllValid, SpecItem, SpecValidDoc
  <2>3. QED
    BY <2>1, <2>2 DEF AcceptInv, GlobalEntriesOK
<1>3. CASE FullItem
  <2> DEFINE p == Paths[k]
  <2>1. CASE AppConfigOK(doc[p])
    <3>1. /\ pc = "items" /\ k <= Len(Paths) /\ (doc[p].global \/ doc[p].hasEntries)
          /\ merged' = merged \o Dump(p, doc[p].entries) /\ k' = k + 1
          /\ UNCHANGED <<matched, doc, pc>>
      BY <1>3, <2>1 DEF FullItem
    <3>2. /\ k \in 1..Len(Paths) /\ doc[p] \in Doc
          /\ Dump(p, doc[p].entries) \in Seq(MergedEntry)
      BY <1>0, <1>3, <2>1, PathsFacts, DumpType DEF FullItem, TypeOK, AppConfigOK, Doc
    <3>3. SpecValidDoc(doc[p])
      BY <2>1, <3>1 DEF AppConfigOK, SpecValidDoc
    <3>4. AllValid' => AllValid
      BY <1>0, <3>1, <3>2, ConcatAllValid DEF AllValid
    <3>5. ItemsBehindOK'
      <4> SUFFICES ASSUME AllValid', NEW m \in 1..(k' - 1), SpecItem(Paths[m])'
                   PROVE  SpecValidDoc(doc'[Paths[m]])
        BY DEF ItemsBehindOK
      <4>1. CASE m < k
        BY <1>0, <3>1, <3>4, <4>1 DEF AcceptInv, ItemsBehindOK, SpecItem
      <4>2. CASE m = k
        BY <3>1, <3>3, <4>2
      <4>3. QED
        BY <1>0, <3>1, <4>1, <4>2
    <3>6. QED
      BY <3>1, <3>5 DEF AcceptInv, GlobalEntriesOK
  <2>2. CASE ~AppConfigOK(doc[p])
    BY <1>3, <2>2 DEF FullItem, AcceptInv
  <2>3. QED
    BY <2>1, <2>2
<1>4. CASE SingleItem
  <2> DEFINE p == Paths[k]
             e == SingleEntry(p, doc[p].single)
  <2>1. /\ pc = "items" /\ k <= Len(Paths) /\ ~doc[p].global /\ ~doc[p].hasEntries
        /\ merged' = Append(merged, e) /\ k' = k + 1
        /\ UNCHANGED <<matched, doc, pc>>
    BY <1>4 DEF SingleItem
  <2>2. /\ k \in 1..Len(Paths) /\ p \in ToSet(Paths) /\ doc[p] \in Doc
    BY <1>0, <1>4, PathsFacts DEF SingleItem, TypeOK
  <2>3. e \in MergedEntry /\ e.valid = doc[p].single.valid
    BY <2>2, SingleEntryType DEF Doc, SingleEntry
  <2>4. AllValid' => AllValid /\ SpecValidDoc(doc[p])
    BY <1>0, <2>1, <2>3, AppendAllValid DEF AllValid, SpecValidDoc
  <2>5. ItemsBehindOK'
    <3> SUFFICES ASSUME AllValid', NEW m \in 1..(k' - 1), SpecItem(Paths[m])'
                 PROVE  SpecValidDoc(doc'[Paths[m]])
      BY DEF ItemsBehindOK
    <3>1. CASE m < k
      <4>1. m \in 1..(k - 1) /\ SpecItem(Paths[m])
        BY <2>1, <2>2, <3>1 DEF SpecItem
      <4>2. ItemsBehindOK /\ AllValid
        BY <1>0, <2>1, <2>4 DEF AcceptInv
      <4>3. QED
        BY <2>1, <4>1, <4>2 DEF ItemsBehindOK
    <3>2. CASE m = k
      BY <2>1, <2>4, <3>2
    <3>3. QED
      BY <1>0, <2>1, <3>1, <3>2
  <2>6. QED
    BY <2>1, <2>5 DEF AcceptInv, GlobalEntriesOK
<1>5. CASE Validate
  <2>1. /\ pc = "items" /\ k = Len(Paths) + 1
        /\ pc' = IF AllValid THEN "done" ELSE "error"
        /\ UNCHANGED <<matched, doc, k, merged>>
    BY <1>5 DEF Validate, AllValid
  <2>2. QED
    BY <2>1 DEF AcceptInv, GlobalEntriesOK, ItemsBehindOK, AllValid, SpecItem
<1>6. CASE UNCHANGED vars
  BY <1>6 DEF vars, AcceptInv, GlobalEntriesOK, ItemsBehindOK, AllValid, SpecItem
<1>7. QED
  BY <1>1, <1>2, <1>3, <1>4, <1>5, <1>6 DEF Next

(***************************************************************************)
(* MergedAccepted for every directory listing, glob and set of parsed     *)
(* files: when load_merged_config returns (config_merge.py 53-58), the    *)
(* global entries and those of every merged item file have their name and *)
(* required fields, and every single-entry item file is a complete entry, *)
(* although only full files are validated while they are read.            *)
(***************************************************************************)
THEOREM MergedAcceptedCorrect == Spec => []MergedAccepted
<1>1. Init => AcceptInv
  BY DEF Init, AcceptInv
<1>2. TypeOK /\ AcceptInv /\ [Next]_vars => AcceptInv'
  BY AcceptInvStep
<1>3. AcceptInv => MergedAccepted
  <2> SUFFICES ASSUME AcceptInv, pc = "done" PROVE SpecAccepts
    BY DEF MergedAccepted
  <2>1. DOMAIN Paths = 1..Len(Paths)
    BY ConfigMergeAssumption, LenProperties
  <2>2. QED
    BY <2>1 DEF AcceptInv, GlobalEntriesOK, ItemsBehindOK, SpecAccepts
<1>4. QED
  BY <1>1, <1>2, <1>3, InitTypeOK, MergeTypeCorrect, PTL DEF Spec

=============================================================================
