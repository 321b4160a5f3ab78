---------------------------- MODULE ConfigManager ----------------------------
(***************************************************************************)
(* Loading the configuration, config_manager.c, as the base app's init     *)
(* does it: parse config/app.yml, put its scalars under their paths, add a *)
(* default token, collect the sections that name sockets.                  *)
(*                                                                         *)
(* libyaml turns the file into events; here a document is written event by *)
(* event, any document of one mapping with scalar keys that no mapping has *)
(* twice.  process_layer calls itself for a mapping, so its local          *)
(* variables are kept on a stack, one frame per call.  Names are sequences *)
(* of characters, because a collection is found by a prefix of the key.    *)
(***************************************************************************)
EXTENDS Naturals, FiniteSets, Sequences, SequencesExt

CONSTANTS
    Names,        \* the scalars of the file: sequences of characters
    Keys,         \* those that may be keys of a mapping: without a ":"
    TokenName,    \* "token"
    Sections,     \* the names of collections in use: "bind", "connect", ...
    Default,      \* the default token, the name of the app's class
    MaxItems,     \* bound: keys, items and nested collections of the file
    None          \* no key yet

Root == <<"config">>

ASSUME ItemsAssumption == MaxItems \in Nat
ASSUME NamesAssumption ==
    /\ Names \cup {TokenName} \subseteq Seq(STRING)
    /\ Keys \subseteq Names /\ \A k \in Keys \cup {TokenName} : ":" \notin ToSet(k)
    /\ None \notin Names /\ Sections \subseteq Keys \ {TokenName}

VARIABLES
    phase,        \* "parse", "stuck", "flatten", "merge" or "ready"
    nodes,        \* the GNode tree: nodes with their parents, root first
    frames,       \* the calls of process_layer, innermost last
    conf_hash,    \* priv->conf_hash: flattened key to value
    section,      \* the last argument of get_collection
    collection,   \* priv->collection
    open,         \* the file: its collections still open, innermost last
    left,         \* the file: what may still be written
    scalars,      \* the file: its scalars outside sequences, by path
    shape         \* the file: its top-level keys and what else it has

parserVars == <<nodes, frames>>
fileVars == <<open, left, scalars, shape>>
tableVars == <<conf_hash, section, collection>>
vars == <<phase, parserVars, fileVars, tableVars>>

NoEntries == [k \in {} |-> None]
With(f, k, v) == [x \in DOMAIN f \cup {k} |-> IF x = k THEN v ELSE f[x]]

(* "a:b:c", as to_hash and sprintf write it. *)
Joined(path) ==
    LET upto[i \in 0..Len(path)] ==
          IF i = 0 THEN Root ELSE upto[i - 1] \o <<":">> \o path[i]
    IN upto[Len(path)]

VAR == 0
VAL == 1
SEQ == 2

(* Mutant: the enumeration is counted up instead of a bit being flipped. *)
FlipAdds(storage) == storage + VAL

(* Mutant: the switch between keys and values is not flipped. *)
FlipNever(storage) == storage

(* storage ^= VAL *)
Flip(storage) == IF storage % 2 = VAR THEN storage + VAL ELSE storage - VAL

Frame(node) == [data |-> node, last_leaf |-> node, storage |-> VAR]

Init ==
    /\ phase = "parse"
    /\ nodes = <<[parent |-> 0, data |-> Root]>>
    /\ frames = <<Frame(1)>>
    /\ conf_hash = NoEntries
    /\ section = None
    /\ collection = NoEntries
    /\ open = <<>>
    /\ left = MaxItems
    /\ scalars = NoEntries
    /\ shape = [top |-> {}, begun |-> FALSE, plain |-> TRUE, nested |-> FALSE]

-----------------------------------------------------------------------------
(* The file: what may come next, and which scalars it has at which path. *)

Inner == Last(open)
AtKey == open # <<>> /\ Inner.kind = "mapping" /\ Inner.key = None
AtValue == open # <<>> /\ Inner.kind = "mapping" /\ Inner.key # None
AtItem == open # <<>> /\ Inner.kind = "sequence"

Collection(kind) ==
    [kind |-> kind, key |-> None, used |-> {},
     path |-> IF open = <<>> THEN <<>>
              ELSE IF AtValue THEN Append(Inner.path, Inner.key) ELSE Inner.path,
     inSeq |-> AtItem \/ kind = "sequence" \/ (open # <<>> /\ Inner.inSeq)]

Write(n) == left >= n /\ left' = left - n

WriteScalar(s) ==
    \/ /\ AtKey /\ s \in Keys \ Inner.used
       /\ Write(1)
       /\ open' = Append(Front(open), [Inner EXCEPT !.key = s, !.used = @ \cup {s}])
       /\ shape' = IF Len(open) = 1 THEN [shape EXCEPT !.top = @ \cup {s}] ELSE shape
       /\ UNCHANGED scalars
    \/ /\ AtValue
       /\ open' = Append(Front(open), [Inner EXCEPT !.key = None])
       /\ scalars' = IF Inner.inSeq THEN scalars
                     ELSE With(scalars, Append(Inner.path, Inner.key), s)
       /\ UNCHANGED <<left, shape>>
    \/ /\ AtItem
       /\ Write(1)
       /\ UNCHANGED <<open, scalars, shape>>

WriteStart(kind) ==
    /\ AtValue \/ AtItem \/ (kind = "mapping" /\ open = <<>> /\ ~shape.begun)
    /\ Write(IF open = <<>> THEN 0 ELSE 1)
    /\ open' = Append(open, Collection(kind))
    /\ shape' = [shape EXCEPT !.begun = TRUE,
                              !.plain = @ /\ kind = "mapping",
                              !.nested = @ \/ (AtItem /\ kind = "sequence")]
    /\ UNCHANGED scalars

WriteEnd(kind) ==
    /\ open # <<>> /\ Inner.kind = kind /\ ~AtValue
    /\ LET outer == Front(open) IN
         open' = IF outer = <<>> THEN <<>>
                 ELSE Append(Front(outer), [Last(outer) EXCEPT !.key = None])
    /\ shape' = [shape EXCEPT !.plain = @ /\ (kind = "mapping" => Inner.used # {})]
    /\ UNCHANGED <<left, scalars>>

-----------------------------------------------------------------------------
(* process_layer: one action per event. *)

Top == Last(frames)
SetTop(frame) == Append(Front(frames), frame)

(* YAML_SCALAR_EVENT: a key goes under the layer's node, everything else under
   the node added last. *)
Scalar(s) ==
    /\ phase = "parse"
    /\ WriteScalar(s)
    /\ nodes' = Append(nodes,
                  [parent |-> IF Top.storage # VAR THEN Top.last_leaf ELSE Top.data,
                   data |-> s])
    /\ frames' = SetTop([Top EXCEPT !.last_leaf = Len(nodes) + 1,
                                    !.storage = Flip(@)])
    /\ UNCHANGED <<phase, tableVars>>

SequenceStart ==
    /\ phase = "parse"
    /\ WriteStart("sequence")
    /\ frames' = SetTop([Top EXCEPT !.storage = SEQ])
    /\ UNCHANGED <<phase, nodes, tableVars>>

(* Mutant: a sequence never ends. *)
SequenceEndKeepsSeq ==
    /\ phase = "parse"
    /\ WriteEnd("sequence")
    /\ UNCHANGED <<phase, nodes, frames, tableVars>>

SequenceEnd ==
    /\ phase = "parse"
    /\ WriteEnd("sequence")
    /\ frames' = SetTop([Top EXCEPT !.storage = VAR])
    /\ UNCHANGED <<phase, nodes, tableVars>>

(* process_layer calls itself. *)
MappingStart ==
    /\ phase = "parse"
    /\ WriteStart("mapping")
    /\ frames' = Append(frames, Frame(Top.last_leaf))
    /\ UNCHANGED <<phase, nodes, tableVars>>

(* It returns, and its caller goes on: storage ^= VAL. *)
MappingEnd ==
    /\ phase = "parse"
    /\ WriteEnd("mapping")
    /\ LET outer == Front(frames) IN
         frames' = Append(Front(outer), [Last(outer) EXCEPT !.storage = Flip(@)])
    /\ UNCHANGED <<phase, nodes, tableVars>>

StreamEnd ==
    /\ phase = "parse"
    /\ open = <<>>
    /\ frames' = <<>>
    /\ phase' = "flatten"
    /\ UNCHANGED <<nodes, fileVars, tableVars>>

(* After a syntax error yaml_parser_parse delivers events of no type: the loop
   never ends. *)
SyntaxError ==
    /\ phase \in {"parse", "stuck"}
    /\ phase' = "stuck"
    /\ UNCHANGED <<parserVars, fileVars, tableVars>>

(* fopen failed. *)
NoFile ==
    /\ phase = "parse" /\ open = <<>> /\ ~shape.begun
    /\ phase' = "merge"
    /\ frames' = <<>>
    /\ UNCHANGED <<nodes, fileVars, tableVars>>

-----------------------------------------------------------------------------
(* From the tree to the tables. *)

Leaves == {i \in DOMAIN nodes : \A j \in DOMAIN nodes : nodes[j].parent # i}

(* The data of a node's ancestors, outermost first. *)
KeyOf ==
    LET under[i \in DOMAIN nodes] ==
          IF nodes[i].parent = 0 THEN nodes[i].data
          ELSE under[nodes[i].parent] \o <<":">> \o nodes[i].data
    IN [i \in DOMAIN nodes |->
          IF nodes[i].parent = 0 THEN <<>> ELSE under[nodes[i].parent]]

(* to_hash for each leaf, in the order of the tree, which is that in which its
   nodes were added: of two leaves with one key the later one counts. *)
Flatten ==
    /\ phase = "flatten"
    /\ phase' = "merge"
    /\ LET key == KeyOf
           last(k) == CHOOSE i \in Leaves :
                        key[i] = k /\ \A j \in Leaves : key[j] = k => j <= i
       IN conf_hash' = [k \in {key[i] : i \in Leaves} |-> nodes[last(k)].data]
    /\ UNCHANGED <<parserVars, fileVars, section, collection>>

(* ipcam_base_app_load_config: the default token. *)
Merge ==
    /\ phase = "merge"
    /\ phase' = "ready"
    /\ conf_hash' = IF Joined(<<TokenName>>) \in DOMAIN conf_hash THEN conf_hash
                    ELSE With(conf_hash, Joined(<<TokenName>>), Default)
    /\ UNCHANGED <<parserVars, fileVars, section, collection>>

(* Mutant: the ":" behind the prefix is not skipped. *)
RestKeepsColon(key, prefix) == SubSeq(key, Len(prefix) + 1, Len(key))

Rest(key, prefix) == SubSeq(key, Len(prefix) + 2, Len(key))

(* Every key with that prefix counts.  Behind a key that is the prefix itself
   lies whatever is in memory there; of two keys with one rest the one that the
   hash table visits last counts. *)
GetCollection(s) ==
    /\ phase = "ready"
    /\ section' = s
    /\ LET prefix == Joined(<<s>>)
           hits == {k \in DOMAIN conf_hash : IsPrefix(prefix, k)}
       IN \E beyond \in IF prefix \in hits THEN Names \cup {<<>>} ELSE {<<>>} :
         LET entries == {<<IF k = prefix THEN beyond ELSE Rest(k, prefix), conf_hash[k]>>
                           : k \in hits}
         IN \E c \in [{e[1] : e \in entries} -> {e[2] : e \in entries}] :
              /\ \A n \in DOMAIN c : <<n, c[n]>> \in entries
              /\ collection' = c
    /\ UNCHANGED <<phase, parserVars, fileVars, conf_hash>>

Next ==
    \/ \E s \in Names : Scalar(s)
    \/ SequenceStart \/ SequenceEnd
    \/ MappingStart \/ MappingEnd
    \/ StreamEnd \/ SyntaxError \/ NoFile
    \/ Flatten \/ Merge
    \/ \E s \in Sections : GetCollection(s)

Spec == Init /\ [][Next]_vars

-----------------------------------------------------------------------------
(* Properties. *)

Values == Names \cup {Root, Default}
Mappings == {i \in DOMAIN open : open[i].kind = "mapping"}

(* Every variable has its type; the tree's nodes come after their parents and
   there is one call of process_layer per open mapping. *)
TypeOK ==
    /\ phase \in {"parse", "stuck", "flatten", "merge", "ready"}
    /\ nodes \in Seq([parent : Nat, data : Names \cup {Root}])
    /\ \A i \in DOMAIN nodes : nodes[i].parent < i
    /\ frames \in Seq([data : DOMAIN nodes, last_leaf : DOMAIN nodes, storage : 0..3])
    /\ phase = "parse" => Len(frames) = 1 + Cardinality(Mappings)
    /\ conf_hash \in [DOMAIN conf_hash -> Values]
    /\ section \in Sections \cup {None}
    /\ collection \in [DOMAIN collection -> Values]
    /\ open \in Seq([kind : {"mapping", "sequence"}, key : Names \cup {None},
                     used : SUBSET Names, path : Seq(Names), inSeq : BOOLEAN])
    /\ left \in 0..MaxItems
    /\ scalars \in [DOMAIN scalars -> Names] /\ DOMAIN scalars \subseteq Seq(Names)
    /\ shape \in [top : SUBSET Names, begun : BOOLEAN, plain : BOOLEAN, nested : BOOLEAN]

(* A scalar of the file is found under the path it has there, whatever
   sequences and empty mappings surround it, and whatever is merged later;
   only a sequence directly in a sequence can displace others. *)
ScalarsAtTheirPath ==
    phase = "ready" /\ ~shape.nested =>
        \A path \in DOMAIN scalars :
            /\ Joined(path) \in DOMAIN conf_hash
            /\ conf_hash[Joined(path)] = scalars[path]

(* Of a file without sequences and empty mappings nothing else is in the
   table, apart from the default token.  An empty file is left out: it leaves
   the root as the only leaf and so an entry under "config". *)
NothingElseInTable ==
    phase = "ready" /\ shape.plain /\ scalars # NoEntries =>
        DOMAIN conf_hash
            \subseteq {Joined(p) : p \in DOMAIN scalars \cup {<<TokenName>>}}

(* A collection has the scalars of its section under the rest of their paths,
   as long as no other top-level key begins with the section's name. *)
CollectionIsSection ==
    (/\ section # None
     /\ shape.plain
     /\ \A n \in shape.top \cup {TokenName} : IsPrefix(section, n) => n = section
     /\ <<section>> \notin DOMAIN scalars) =>
        LET paths == {p \in DOMAIN scalars : p[1] = section}
            below(p) == SubSeq(Joined(Tail(p)), Len(Root) + 2, Len(Joined(Tail(p))))
        IN /\ DOMAIN collection = {below(p) : p \in paths}
           /\ \A p \in paths : collection[below(p)] = scalars[p]
=============================================================================
