-------------------------------- MODULE Dict --------------------------------
(***************************************************************************)
(* The string dictionary (src/dict): paged_string_pool keeps the strings   *)
(* one after the other on the pages of a file, the position of a string    *)
(* over all pages is its code; code_table maps hash values to codes. The   *)
(* table is in memory only and is rebuilt when the database is opened.     *)
(*                                                                         *)
(* A dictionary is a record [pages, table]. A page is [last, strings]: the *)
(* position behind its last string, kept in its first bytes, and the       *)
(* strings on it with their positions. Every operation holds the mutex m_. *)
(***************************************************************************)
EXTENDS Integers, Sequences, SequencesExt, FiniteSetsExt, Functions

CONSTANTS
    Str,        \* strings
    Length,     \* [Str -> Nat]
    Hash,       \* std::hash<std::string>
    PageSize    \* PF_PAGE_SIZE

\* sizeof(uint32_t), what the position behind the last string takes.
Header == 4

ASSUME DictAssumption ==
    /\ Length \in [Str -> Nat] /\ Hash \in [Str -> Nat] /\ PageSize \in Nat
    /\ \A s \in Str : Header + Length[s] + 1 < PageSize

UNKNOWN_CODE == 0
Nowhere == "nowhere"

NewPage == [last |-> 0, strings |-> <<>>]

\* paged_string_pool::add.
add(pages, s) ==
    LET n == Len(pages)
        base == (n - 1) * PageSize
        last == IF pages[n].last = 0 THEN Header ELSE pages[n].last
        fits == last - base + Length[s] + 1 < PageSize
        pos == IF fits THEN last ELSE n * PageSize + Header
        page == IF fits THEN pages[n] ELSE NewPage
        new == [last |-> pos + Length[s] + 1, strings |-> Append(page.strings, [str |-> s, pos |-> pos])]
    IN  [pages |-> IF fits THEN [pages EXCEPT ![n] = new] ELSE Append(pages, new),
         code |-> pos]

\* paged_string_pool::extract: the string that starts at a position.
extract(pages, code) ==
    LET p == code \div PageSize + 1
        at == IF p \in DOMAIN pages THEN {e \in Range(pages[p].strings) : e.pos = code} ELSE {}
    IN  IF at = {} THEN Nowhere ELSE (CHOOSE e \in at : TRUE).str

\* Mutant: positions start again with 0 on every page.
scan_page_relative(pages) ==
    FlattenSeq([p \in DOMAIN pages |->
      LET strings == [i \in DOMAIN pages[p].strings |->
                        [pages[p].strings[i] EXCEPT !.pos = @ - (p - 1) * PageSize]]
          empty == SelectInSeq(strings, LAMBDA e : Length[e.str] = 0)
      IN  IF empty = 0 THEN strings ELSE SubSeq(strings, 1, empty - 1)])

\* paged_string_pool::scan: a page is done when a string would start with a
\* zero byte, which is where an empty string is, too.
scan(pages) ==
    FlattenSeq([p \in DOMAIN pages |->
      LET strings == pages[p].strings
          empty == SelectInSeq(strings, LAMBDA e : Length[e.str] = 0)
      IN  IF empty = 0 THEN strings ELSE SubSeq(strings, 1, empty - 1)])

\* map_.emplace: what is in the table stays.
emplace(table, h, code) == table @@ (h :> code)

\* code_table::rebuild.
rebuild(pages) == FoldLeft(LAMBDA t, e : emplace(t, Hash[e.str], e.pos), <<>>, scan(pages))

\* dict::dict on a file, which is new if it has no pages.
Open(pages) == [pages |-> pages, table |-> rebuild(pages)]
NewDict == Open(<<NewPage>>)

\* code_table::find.
find(d, s) == IF Hash[s] \in DOMAIN d.table THEN d.table[Hash[s]] ELSE UNKNOWN_CODE

\* dict::lookup_string and lookup_code.
lookup_string(d, s) == find(d, s)
lookup_code(d, code) == extract(d.pages, code)

\* Mutant: the table does not learn about the string.
insert_pool(d, s) ==
    IF find(d, s) # UNKNOWN_CODE THEN [dict |-> d, code |-> find(d, s)]
    ELSE LET a == add(d.pages, s)
         IN  [dict |-> [d EXCEPT !.pages = a.pages], code |-> a.code]

\* dict::insert.
insert(d, s) ==
    IF find(d, s) # UNKNOWN_CODE THEN [dict |-> d, code |-> find(d, s)]
    ELSE LET a == add(d.pages, s)
         IN  [dict |-> [pages |-> a.pages, table |-> emplace(d.table, Hash[s], a.code)],
              code |-> a.code]

\* The strings that are stored, each as often as it is.
Stored(d) == FlattenSeq([p \in DOMAIN d.pages |-> d.pages[p].strings])
=============================================================================
