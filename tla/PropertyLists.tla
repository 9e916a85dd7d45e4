---------------------------- MODULE PropertyLists ----------------------------
(***************************************************************************)
(* The properties of nodes (src/storage/properties.hpp): a list of         *)
(* property_sets in a table, PerSet items in each, names and string values *)
(* replaced by their codes in the dictionary. The actions are what the     *)
(* commit of an insert, an update or a delete does to them, an aborted     *)
(* transaction, the import of a row of a csv file, and the restart of the  *)
(* database. Relationships keep their properties in the same way.          *)
(*                                                                         *)
(* All values are strings. A slot of the table is used when it is in the   *)
(* domain of sets. The table of the nodes and the table of the property    *)
(* sets are one chunk each, which the calls never fill and the buffer pool *)
(* never evicts: there store, append and store_at all take the first free  *)
(* slot. Vectors of several chunks are the subject of BufferedVec.         *)
(*                                                                         *)
(* Closing the database writes the chunks that are marked dirty. What an   *)
(* update changes in place marks none, and is lost unless another call has *)
(* marked the chunk; lost are the nodes to which that has happened.        *)
(***************************************************************************)
EXTENDS Dict

CONSTANTS
    Node,        \* slots of the node table
    Columns,     \* the names of properties, a sequence in the order of strings
    Val,         \* their values
    PerSet,      \* items of a property_set
    Maps,        \* the properties_t the application uses: functions from names to values
    Rows,        \* the rows of csv files: a value or Empty for each of Columns
    MaxSlots,    \* slots of the table of property sets
    MaxCalls     \* bound on the calls

Key == Range(Columns)
UNKNOWN == 0
Empty == "empty"
Slot == 1 .. MaxSlots

ASSUME PropertiesAssumption ==
    /\ Key \subseteq Str /\ Val \subseteq Str /\ Empty \notin Str /\ Nowhere \notin Str
    /\ PerSet \in Nat \ {0} /\ MaxSlots \in Nat /\ MaxCalls \in Nat
    /\ \A m \in Maps : DOMAIN m \subseteq Key /\ Range(m) \subseteq Val /\ DOMAIN m # {}
    /\ Rows \subseteq [1 .. Len(Columns) -> Val \cup {Empty}]
    /\ MaxCalls * ((Len(Columns) + PerSet - 1) \div PerSet) <= MaxSlots

VARIABLES
    dict,     \* the dictionary
    sets,     \* [used slots -> [owner, items, next]]
    plist,    \* n.property_list
    disk,     \* the two tables as they are in their files
    dirty,    \* the tables whose chunk is marked dirty
    kv,       \* history: the properties a node has been given, <<>> for a free slot
    touched,  \* history: what updates have changed in place, as <<table, node>>
    lost,     \* history: the nodes of which such a change did not reach the file
    calls     \* number of calls

pages == <<disk, dirty, touched, lost>>
vars == <<dict, sets, plist, pages, kv, calls>>

-----------------------------------------------------------------------------
(* Lists of items. An item is [key, val], both codes. *)

\* The names of a map in the order of properties_t, a std::map.
Names(m) == SelectSeq(Columns, LAMBDA k : k \in DOMAIN m)

\* p_item: the value is encoded before the name.
p_item(d, k, v) ==
    LET val == insert(d, v)
        key == insert(val.dict, k)
    IN  [dict |-> key.dict, item |-> [key |-> key.code, val |-> val.code]]

\* build_dirty_property_list of a map.
Items(d, m) ==
    FoldLeft(LAMBDA r, k : LET p == p_item(r.dict, k, m[k])
                           IN  [dict |-> p.dict, items |-> Append(r.items, p.item)],
             [dict |-> d, items |-> <<>>], Names(m))

\* The ids of the property sets of a list, its head first.
Chain(tab, id) ==
    LET chain[k \in Nat] ==
          IF k = 0 THEN <<>>
          ELSE LET c == chain[k - 1]
                   at == IF c = <<>> THEN id ELSE tab[c[Len(c)]].next
               IN  IF at = UNKNOWN THEN c ELSE Append(c, at)
    IN  chain[Cardinality(DOMAIN tab)]

\* build_dirty_property_list of what is stored.
StoredItems(tab, id) == FlattenSeq([i \in DOMAIN Chain(tab, id) |-> tab[Chain(tab, id)[i]].items])

\* Mutant: an item that is there already is added again.
apply_updates_append(items, new) == items \o new

\* apply_updates: items with a new value keep their place.
apply_updates(items, new) ==
    LET value(key) == SelectInSeq(new, LAMBDA p : p.key = key)
    IN  [i \in DOMAIN items |-> IF value(items[i].key) = 0 THEN items[i] ELSE new[value(items[i].key)]]
        \o SelectSeq(new, LAMBDA p : SelectInSeq(items, LAMBDA q : q.key = p.key) = 0)

\* The items of the i-th property set.
Group(items, i) == SubSeq(items, (i - 1) * PerSet + 1, Min({i * PerSet, Len(items)}))
Groups(items) == [i \in 1 .. (Len(items) + PerSet - 1) \div PerSet |-> Group(items, i)]

\* properties_.store, append or store_at of a set that becomes the head, in a
\* vector of one chunk.
Push(t, n, group) ==
    LET id == Min(Slot \ DOMAIN t.tab)
    IN  [tab |-> t.tab @@ (id :> [owner |-> n, items |-> group, next |-> t.head]), head |-> id]

\* add_pitems and append_properties.
add_pitems(tab, n, items) ==
    FoldLeft(LAMBDA t, g : Push(t, n, g), [tab |-> tab, head |-> UNKNOWN], Groups(items))

\* Mutant: the sets there are are not used again.
update_pitems_push(tab, n, id, items) ==
    FoldLeft(LAMBDA t, g : Push(t, n, g), [tab |-> tab, head |-> UNKNOWN], Groups(items))

\* update_pitems: the sets there are are overwritten, for the rest new ones
\* are put in front.
update_pitems(tab, n, id, items) ==
    LET chain == Chain(tab, id)
        groups == Groups(items)
        at(s) == SelectInSeq(chain, LAMBDA x : x = s)
        over == [s \in DOMAIN tab |-> IF at(s) \in DOMAIN groups
                                      THEN [tab[s] EXCEPT !.items = groups[at(s)]] ELSE tab[s]]
    IN  FoldLeft(LAMBDA t, g : Push(t, n, g), [tab |-> over, head |-> id],
                 SubSeq(groups, Len(chain) + 1, Len(groups)))

\* remove_properties.
remove_properties(tab, id) == Restrict(tab, DOMAIN tab \ Range(Chain(tab, id)))

\* append_typed_properties of a row: empty fields are passed over. A set is
\* stored when it is full or when the last field has been added to it.
append_typed_properties(d, tab, n, row) ==
    LET full == SelectSeq([i \in DOMAIN row |-> [key |-> Columns[i], val |-> row[i]]],
                          LAMBDA f : f.val # Empty)
        enc == FoldLeft(LAMBDA r, f : LET v == insert(r.dict, f.val)
                                      IN  [dict  |-> v.dict,
                                           items |-> Append(r.items, [key |-> lookup_string(v.dict, f.key),
                                                                      val |-> v.code])],
                        [dict |-> d, items |-> <<>>], full)
        stored == IF row[Len(row)] # Empty THEN enc.items
                  ELSE SubSeq(enc.items, 1, PerSet * (Len(enc.items) \div PerSet))
        t == add_pitems(tab, n, stored)
    IN  [dict |-> enc.dict, tab |-> t.tab, head |-> t.head]

\* property_value: the first item with that key.
property_value(tab, id, key) ==
    LET items == StoredItems(tab, id)
        at == SelectInSeq(items, LAMBDA p : p.key = key)
    IN  IF at = 0 THEN UNKNOWN_CODE ELSE items[at].val

\* all_properties: names and values decoded; the first one of a name counts.
all_properties(d, tab, id) ==
    LET items == StoredItems(tab, id)
        name(i) == lookup_code(d, items[i].key)
        first(k) == Min({i \in DOMAIN items : name(i) = k})
    IN  [k \in {name(i) : i \in DOMAIN items} |-> lookup_code(d, items[first(k)].val)]

\* foreach: the owners of the items with a key and a value.
foreach(tab, key, val) ==
    {tab[s].owner : s \in {t \in DOMAIN tab : \E i \in DOMAIN tab[t].items :
                             tab[t].items[i] = [key |-> key, val |-> val]}}

-----------------------------------------------------------------------------

Init ==
    /\ dict = NewDict
    /\ sets = <<>>
    /\ plist = [n \in Node |-> UNKNOWN]
    /\ disk = [nodes |-> plist, props |-> sets]
    /\ dirty = {} /\ touched = {} /\ lost = {}
    /\ kv = [n \in Node |-> <<>>]
    /\ calls = 0

Call == calls < MaxCalls /\ calls' = calls + 1

\* mark_dirty of the chunks of some tables.
Mark(tables) == dirty' = dirty \cup tables

\* A new node takes the first free slot.
IsFree(n) == kv[n] = <<>> /\ \A k \in Node : k < n => kv[k] # <<>>

\* add_node and its commit: copy_properties, case insert. store marks the chunk.
AddNode(n, m) ==
    LET new == Items(dict, m)
        t == add_pitems(sets, n, new.items)
    IN  /\ Call /\ IsFree(n)
        /\ dict' = new.dict
        /\ sets' = t.tab
        /\ plist' = [plist EXCEPT ![n] = t.head]
        /\ kv' = [kv EXCEPT ![n] = m]
        /\ Mark({"nodes", "props"})
        /\ UNCHANGED <<disk, touched, lost>>

\* update_node and its commit: copy_properties, case update. The sets that are
\* overwritten and the new head in the node come from at(), which marks nothing;
\* store_at, for a set more, marks the chunk.
UpdateNode(n, m) ==
    LET new == Items(dict, m)
        t == update_pitems(sets, n, plist[n], apply_updates(StoredItems(sets, plist[n]), new.items))
        longer == t.head # plist[n]
    IN  /\ Call /\ kv[n] # <<>>
        /\ dict' = new.dict
        /\ sets' = t.tab
        /\ plist' = [plist EXCEPT ![n] = t.head]
        /\ kv' = [kv EXCEPT ![n] = m @@ @]
        /\ Mark(IF longer THEN {"props"} ELSE {})
        /\ touched' = touched \cup {<<"props", n>>} \cup (IF longer THEN {<<"nodes", n>>} ELSE {})
        /\ UNCHANGED <<disk, lost>>

\* delete_node and its commit. erase marks the chunk of the property sets, and
\* vacuum, which removes the node as nobody else is active, that of the nodes.
DeleteNode(n) ==
    /\ Call /\ kv[n] # <<>>
    /\ sets' = remove_properties(sets, plist[n])
    /\ plist' = [plist EXCEPT ![n] = UNKNOWN]
    /\ kv' = [kv EXCEPT ![n] = <<>>]
    /\ Mark({"nodes"} \cup IF plist[n] = UNKNOWN THEN {} ELSE {"props"})
    /\ UNCHANGED <<dict, disk, touched, lost>>

\* A transaction that aborts has put its strings into the dictionary. One that
\* has inserted a node has taken a slot and gives it back.
Abort(m) ==
    /\ Call
    /\ dict' = Items(dict, m).dict
    /\ \/ Mark({"nodes"})
       \/ (\E n \in Node : kv[n] # <<>>) /\ Mark({})
    /\ UNCHANGED <<sets, plist, kv, disk, touched, lost>>

\* import_typed_node: the header of the file first, then the row.
ImportNode(n, row) ==
    LET header == FoldLeft(LAMBDA d, k : insert(d, k).dict, dict, Columns)
        t == append_typed_properties(header, sets, n, row)
        given == {i \in DOMAIN row : row[i] # Empty}
    IN  /\ Call /\ IsFree(n) /\ given # {}
        /\ dict' = t.dict
        /\ sets' = t.tab
        /\ plist' = [plist EXCEPT ![n] = t.head]
        /\ kv' = [kv EXCEPT ![n] = [k \in {Columns[i] : i \in given} |->
                                      row[CHOOSE i \in given : Columns[i] = k]]]
        /\ Mark({"nodes"} \cup IF t.head = UNKNOWN THEN {} ELSE {"props"})
        /\ UNCHANGED <<disk, touched, lost>>

\* What flush_all leaves in the file of a table.
Saved(table, memory) == IF table \in dirty THEN memory ELSE disk[table]

\* graph_pool::close and open_graph: flush_all writes the marked chunks, the
\* tables are read from their files and the code table is built anew.
Restart ==
    /\ Call
    /\ dict' = Open(dict.pages)
    /\ disk' = [nodes |-> Saved("nodes", plist), props |-> Saved("props", sets)]
    /\ plist' = disk'.nodes /\ sets' = disk'.props
    /\ dirty' = {} /\ touched' = {}
    /\ lost' = lost \cup {c[2] : c \in {x \in touched : x[1] \notin dirty}}
    /\ UNCHANGED kv

Next ==
    \/ \E n \in Node, m \in Maps : AddNode(n, m) \/ UpdateNode(n, m)
    \/ \E n \in Node : DeleteNode(n)
    \/ \E m \in Maps : Abort(m)
    \/ \E n \in Node, row \in Rows : ImportNode(n, row)
    \/ Restart

Spec == Init /\ [][Next]_vars

-----------------------------------------------------------------------------
(* Properties. *)

\* All variables have values of their types.
TypeOK ==
    /\ DOMAIN dict.table \subseteq Range(Hash)
    /\ \A p \in DOMAIN dict.pages : dict.pages[p].last < p * PageSize
    /\ DOMAIN sets \subseteq Slot
    /\ \A s \in DOMAIN sets :
         /\ sets[s].owner \in Node /\ sets[s].next \in {UNKNOWN} \cup DOMAIN sets
         /\ Len(sets[s].items) \in 1 .. PerSet
    /\ plist \in [Node -> {UNKNOWN} \cup DOMAIN sets]
    /\ \A n \in Node : DOMAIN kv[n] \subseteq Key /\ Range(kv[n]) \subseteq Val
    /\ dirty \subseteq {"nodes", "props"} /\ touched \subseteq {"nodes", "props"} \X Node
    /\ lost \subseteq Node
    /\ calls \in 0 .. MaxCalls

\* "Duplicate strings are ignored and the already assigned code is returned"
\* (dict.hpp:66): a string is stored once, lookup_string finds its code and
\* lookup_code gets it back, before and after a restart.
CodesRight ==
    LET stored == Stored(dict)
    IN  /\ \A i, j \in DOMAIN stored : stored[i].str = stored[j].str => i = j
        /\ \A i \in DOMAIN stored :
             /\ lookup_string(dict, stored[i].str) = stored[i].pos
             /\ lookup_code(dict, stored[i].pos) = stored[i].str

\* The properties of a node are the ones it was given last, name by name:
\* through updates that make its list longer, deletes of other nodes whose
\* slots it gets, and restarts.
PropertiesRight == \A n \in Node \ lost : all_properties(dict, sets, plist[n]) = kv[n]

\* Reading one property by its name gives the value the description has.
ValueRight ==
    \A n \in Node \ lost, k \in Key :
       LET v == property_value(sets, plist[n], lookup_string(dict, k))
       IN  IF k \in DOMAIN kv[n] THEN lookup_code(dict, v) = kv[n][k] ELSE v = UNKNOWN_CODE

\* The scan of the property table finds the nodes with a value, and no node
\* that had it once.
ScanRight ==
    \A k \in Key, v \in Val :
       foreach(sets, lookup_string(dict, k), lookup_string(dict, v)) \ lost
          = {n \in Node \ lost : k \in DOMAIN kv[n] /\ kv[n][k] = v}

\* The three ways to read properties (all of a node, one by its name, and the
\* scan of the table for a value) agree with what the nodes were given, for every
\* node of which no change in place was lost when the database was closed: what
\* happens to another node, its lost changes included, does not disturb it.
ReadsRight == PropertiesRight /\ ValueRight /\ ScanRight

\* A property set belongs to the list of its owner and to no other list, also
\* when a list has fallen back to an older state; and no set is out of reach, but
\* those of nodes of which a change was lost.
SetsOwned ==
    /\ \A n \in Node : \A i \in DOMAIN Chain(sets, plist[n]) : sets[Chain(sets, plist[n])[i]].owner = n
    /\ \A s \in DOMAIN sets : s \in Range(Chain(sets, plist[sets[s].owner])) \/ sets[s].owner \in lost

\* The code of a string is the same for ever.
CodesStay ==
    [][\A s \in Str : lookup_string(dict, s) # UNKNOWN_CODE => lookup_string(dict', s) = lookup_string(dict, s)]_vars
=============================================================================
