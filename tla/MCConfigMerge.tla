--------------------------- MODULE MCConfigMerge ---------------------------
(***************************************************************************)
(* ConfigMerge for TLC: a directory with the global config.toml, an       *)
(* example item file and two item files, listed in sorted() order; the    *)
(* glob may match any of them (a scan_items_glob such as "*.toml" matches *)
(* the global file too).                                                   *)
(***************************************************************************)
EXTENDS ConfigMerge

MCPaths == <<"config.toml", "item_a.example.toml", "item_a.toml", "item_b.toml">>

MCStem == [p \in ToSet(MCPaths) |->
             CASE p = "item_a.toml" -> "a" [] p = "item_b.toml" -> "b"
               [] p = "item_a.example.toml" -> "a.example" [] OTHER -> "config"]

MCNames == {"a", "b", "a.example", "config"}

NoSingle == [name |-> NoName, valid |-> FALSE]

\* the entries list of a full document: none, a complete entry named "b",
\* an entry without a name, an entry missing primary_domain
MCEntryLists ==
    {<<>>, <<[name |-> "b", valid |-> TRUE]>>, <<[name |-> NoName, valid |-> TRUE]>>,
     <<[name |-> "b", valid |-> FALSE]>>}

MCDocs ==
    [global : BOOLEAN, hasEntries : {TRUE}, entries : MCEntryLists, single : {NoSingle}]
    \cup [global : {TRUE}, hasEntries : {FALSE}, entries : {<<>>}, single : {NoSingle}]
    \cup [global : {FALSE}, hasEntries : {FALSE}, entries : {<<>>},
          single : [name : {"b", NoName}, valid : BOOLEAN]]

=============================================================================
