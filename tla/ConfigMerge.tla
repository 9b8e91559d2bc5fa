---------------------------- MODULE ConfigMerge ----------------------------
(***************************************************************************)
(* config_merge.load_merged_config: the global config's entries, then the *)
(* item files matched by scan_items_glob in sorted order, each merged as  *)
(* a full document or as a single entry, then one final validation.       *)
(*                                                                         *)
(* A parsed file is abstracted to what the merge looks at: whether it has *)
(* a "global" key and an "entries" key, its entries, and, when it has     *)
(* neither, the single-entry mapping it is.  An entry is abstracted to    *)
(* its "name" key (NoName when absent) and whether the other required     *)
(* fields of EntryConfig (primary_domain, dns_provider) are there.  The   *)
(* directory listing and the file contents are the inputs, chosen in Init *)
(* and never changed; the merge loop is the state machine.  Its index k  *)
(* walks the sorted directory listing, so that sorted(conf_dir.glob(...)) *)
(* is that listing with the names the glob does not match passed over.     *)
(***************************************************************************)
EXTENDS Naturals, Sequences

\* the set of the elements of a sequence (ToSet of SequencesExt, which this
\* module does not extend so that its proofs may use the SMT backend)
ToSet(s) == {s[i] : i \in DOMAIN s}

CONSTANTS
    Paths,       \* the file names of the config directory, in sorted() order
    GlobalFile,  \* the name of the global config file
    Examples,    \* the names that end with ".example.toml"
    Stem,        \* _default_name_from_item, per file name
    Names,       \* entry names
    NoName,      \* the "name" key is absent
    Docs         \* the parsed files the inputs range over

ASSUME ConfigMergeAssumption ==
    /\ Paths \in Seq(STRING)
    /\ GlobalFile \in ToSet(Paths)
    /\ Examples \subseteq ToSet(Paths)
    /\ Stem \in [ToSet(Paths) -> Names]
    /\ NoName \notin Names

RawEntry == [name : Names \cup {NoName}, valid : BOOLEAN]

Doc == [global : BOOLEAN, hasEntries : BOOLEAN, entries : Seq(RawEntry),
        single : RawEntry]

\* an entry of the merged list: its name, the file it came from and
\* whether EntryConfig accepts it
MergedEntry == [name : Names, src : ToSet(Paths), valid : BOOLEAN]

ASSUME DocsAssumption == Docs \subseteq Doc

VARIABLES
    matched,  \* the names conf_dir.glob(scan_glob) returns
    doc,      \* the parsed content of the global file and of every match
    pc,       \* "global", "items", "done" or "error" (an exception)
    k,        \* the loop index into Paths
    merged    \* merged_entries

vars == <<matched, doc, pc, k, merged>>

\* AppConfig.model_validate: "global" is a required field (alias, no
\* default) and every entry needs its name and its other required fields
AppConfigOK(d) ==
    /\ d.global
    /\ \A j \in DOMAIN d.entries : d.entries[j].name # NoName /\ d.entries[j].valid

\* [e.model_dump() for e in cfg.entries]
Dump(p, es) == [j \in DOMAIN es |-> [name |-> es[j].name, src |-> p, valid |-> TRUE]]

\* the item entry taken as it is, without the default name
SingleEntryNoDefault(p, e) == [name |-> e.name, src |-> p, valid |-> e.valid]

\* item_entry.setdefault("name", default_name)
SingleEntry(p, e) ==
    [name |-> IF e.name = NoName THEN Stem[p] ELSE e.name, src |-> p, valid |-> e.valid]

TypeOK ==
    /\ matched \subseteq ToSet(Paths)
    /\ doc \in [matched \cup {GlobalFile} -> Doc]
    /\ pc \in {"global", "items", "done", "error"}
    /\ k \in 1..Len(Paths) + 1
    /\ merged \in Seq(MergedEntry)

Init ==
    /\ matched \in SUBSET ToSet(Paths)
    /\ doc \in [matched \cup {GlobalFile} -> Docs]
    /\ pc = "global" /\ k = 1 /\ merged = <<>>

\* load_config and GlobalOnlyConfig of the global file, then its entries
LoadGlobal ==
    /\ pc = "global"
    /\ IF AppConfigOK(doc[GlobalFile])
       THEN /\ merged' = Dump(GlobalFile, doc[GlobalFile].entries)
            /\ pc' = "items"
       ELSE /\ pc' = "error"
            /\ UNCHANGED merged
    /\ UNCHANGED <<matched, doc, k>>

\* sorted(conf_dir.glob(scan_glob)) (config_merge.py 32): a name of the
\* listing the glob does not match is not visited
GlobSkip ==
    /\ pc = "items" /\ k <= Len(Paths)
    /\ Paths[k] \notin matched
    /\ k' = k + 1
    /\ UNCHANGED <<matched, doc, pc, merged>>

\* the global file itself and *.example.toml are never merged
SkipItem ==
    /\ pc = "items" /\ k <= Len(Paths) /\ Paths[k] \in matched
    /\ Paths[k] = GlobalFile \/ Paths[k] \in Examples
    /\ k' = k + 1
    /\ UNCHANGED <<matched, doc, pc, merged>>

\* a file with an "entries" or a "global" key is a full AppConfig
FullItem ==
    /\ pc = "items" /\ k <= Len(Paths) /\ Paths[k] \in matched
    /\ LET p == Paths[k] IN
       /\ p # GlobalFile /\ p \notin Examples
       /\ doc[p].global \/ doc[p].hasEntries
       /\ IF AppConfigOK(doc[p])
          THEN /\ merged' = merged \o Dump(p, doc[p].entries)
               /\ k' = k + 1
               /\ UNCHANGED pc
          ELSE /\ pc' = "error"
               /\ UNCHANGED <<merged, k>>
    /\ UNCHANGED <<matched, doc>>

\* an overwriting default instead of setdefault
SingleItemOverwritingName ==
    /\ pc = "items" /\ k <= Len(Paths) /\ Paths[k] \in matched
    /\ LET p == Paths[k] IN
       /\ p # GlobalFile /\ p \notin Examples
       /\ ~doc[p].global /\ ~doc[p].hasEntries
       /\ merged' = Append(merged, [SingleEntry(p, doc[p].single) EXCEPT !.name = Stem[p]])
    /\ k' = k + 1
    /\ UNCHANGED <<matched, doc, pc>>

\* otherwise the file is one entry, appended unvalidated
SingleItem ==
    /\ pc = "items" /\ k <= Len(Paths) /\ Paths[k] \in matched
    /\ LET p == Paths[k] IN
       /\ p # GlobalFile /\ p \notin Examples
       /\ ~doc[p].global /\ ~doc[p].hasEntries
       /\ merged' = Append(merged, SingleEntry(p, doc[p].single))
    /\ k' = k + 1
    /\ UNCHANGED <<matched, doc, pc>>

\* the merged list returned without the final validation
ValidateNothing ==
    /\ pc = "items" /\ k = Len(Paths) + 1
    /\ pc' = "done"
    /\ UNCHANGED <<matched, doc, k, merged>>

\* AppConfig.model_validate(merged_dict)
Validate ==
    /\ pc = "items" /\ k = Len(Paths) + 1
    /\ pc' = IF \A j \in DOMAIN merged : merged[j].valid THEN "done" ELSE "error"
    /\ UNCHANGED <<matched, doc, k, merged>>

Next == LoadGlobal \/ GlobSkip \/ SkipItem \/ FullItem \/ SingleItem \/ Validate

Spec == Init /\ [][Next]_vars

-----------------------------------------------------------------------------
(* The merge as spec section 4.2 describes it, and what it accepts (spec   *)
(* section 3: "GlobalSettings ... defaults apply when absent").            *)

\* the files the spec merges: matched, not the global file, not examples
SpecItem(p) == p \in matched /\ p # GlobalFile /\ p \notin Examples

SpecItems == SelectSeq(Paths, SpecItem)

\* the entries of a file parsed as a full config document
SpecEntries(p) ==
    [j \in DOMAIN doc[p].entries |-> [name |-> doc[p].entries[j].name, src |-> p,
                                      valid |-> TRUE]]

\* "append every one of its entries"; or "exactly one entry", named from
\* the file when it has no name
SpecPart(p) ==
    LET d == doc[p] IN
    IF d.global \/ d.hasEntries
    THEN SpecEntries(p)
    ELSE << [name |-> IF d.single.name # NoName THEN d.single.name ELSE Stem[p],
             src |-> p, valid |-> d.single.valid] >>

\* the concatenation of a sequence of sequences
Flatten(ss) ==
    LET F[i \in 0..Len(ss)] == IF i = 0 THEN << >> ELSE F[i - 1] \o ss[i]
    IN  F[Len(ss)]

\* global entries first, then the item files in sorted filename order
SpecMerged ==
    Flatten(<< SpecEntries(GlobalFile) >> \o [i \in DOMAIN SpecItems |-> SpecPart(SpecItems[i])])

\* every entry has its name and required fields; "global" may be absent
SpecValidDoc(d) ==
    IF d.global \/ d.hasEntries
    THEN \A j \in DOMAIN d.entries : d.entries[j].name # NoName /\ d.entries[j].valid
    ELSE d.single.valid

SpecAccepts ==
    /\ \A j \in DOMAIN doc[GlobalFile].entries :
          doc[GlobalFile].entries[j].name # NoName /\ doc[GlobalFile].entries[j].valid
    /\ \A i \in DOMAIN Paths : SpecItem(Paths[i]) => SpecValidDoc(doc[Paths[i]])

(***************************************************************************)
(* When load_merged_config returns, the configuration is one the spec     *)
(* accepts: the global entries and the entries of every merged item file  *)
(* have their names and required fields, and every single-entry file is   *)
(* a complete entry.  The final model_validate of the code checks the     *)
(* merged list only, not the files, so the property relates the files    *)
(* read earlier in the loop to the check at its end.                      *)
(***************************************************************************)
MergedAccepted == pc = "done" => SpecAccepts

(***************************************************************************)
(* When load_merged_config returns, its entries are exactly the spec's    *)
(* merge: the global entries, then per sorted item file its entries or    *)
(* its one entry with the name defaulted from the file name, with the     *)
(* global file and *.example.toml left out and duplicates kept.           *)
(***************************************************************************)
MergedInSpecOrder == pc = "done" => merged = SpecMerged

(***************************************************************************)
(* Spec 3 and 4.2: a configuration whose entries are all well-formed      *)
(* loads; a missing "global" table falls back to the defaults.  So        *)
(* load_merged_config never fails on a configuration the spec accepts.    *)
(***************************************************************************)
LoadsWhatSpecAccepts == pc = "error" => ~SpecAccepts

=============================================================================
