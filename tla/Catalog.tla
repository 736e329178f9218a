------------------------------- MODULE Catalog -------------------------------
(***************************************************************************)
(* The movie catalog (src/app/movie_catalog.c) and the screens over it     *)
(* (src/app/ui_catalog.c): the JSON reader, the entry table with its       *)
(* searches, sorting and growth, and the views that keep pointers into it. *)
(*                                                                         *)
(* A document is a sequence of tokens: a string <<"s", x>>, a number       *)
(* <<"n", tenths>>, a literal <<"w">>, or one character <<"c", x>>, space  *)
(* included.  Text is opaque: TextOrder is its strcmp order, Found the     *)
(* pairs in which the second is part of the first whatever the case.       *)
(***************************************************************************)
EXTENDS Integers, Sequences, SequencesExt, FiniteSets, FiniteSetsExt

CONSTANTS FilePairs,   \* what the two catalog paths hold: documents, or NoFile
          NoFile,
          TextOrder,   \* the texts, as strcmp orders them
          Found,       \* the pairs <<text, query>> strstr finds
          Queries,
          Numeral,     \* the number, in tenths, a text starts with
          Btih,        \* the hash in a magnet link
          NewEntries,  \* what catalog_add_entry is given
          FirstCapacity, \* 16
          MaxAllocs,   \* bound on the allocations of one load
          MaxOps       \* bound on the calls of one client

ASSUME CatalogAssumption == /\ FirstCapacity \in Nat \ {0} /\ MaxAllocs \in Nat
                            /\ MaxOps \in Nat

VARIABLE cat

catVars == <<cat>>

----------------------------------------------------------------------------
(* The JSON reader.                                                        *)

Tok(t, p) == IF p \in DOMAIN t THEN t[p] ELSE <<"end", "">>

\* skip_ws
SkipWs(t, p) ==
  LET skip[q \in Nat] == IF Tok(t, q) = <<"c", " ">> THEN skip[q + 1] ELSE q IN skip[p]

SkipComma(t, p) == LET q == SkipWs(t, p)
                   IN  IF Tok(t, q) = <<"c", ",">> THEN SkipWs(t, q + 1) ELSE q

NoValue == [ok |-> FALSE, p |-> 0, v |-> <<>>]

\* json_parse.  parse_json_string ends after the closing quote and json_parse then
\* steps over one character more, so the character after a string value is lost: a
\* comma or a space does no harm.  Keys do not lose one.  An object or array that
\* is cut off counts as complete.
JsonParse(t) ==
  LET parse[what \in {"value", "pairs", "items"}, at \in Nat] ==
        LET p == SkipWs(t, at)
            k == Tok(t, p)
            c == SkipWs(t, p + 1)
        IN  CASE what = "value" ->
                   (CASE k[1] = "s" -> [ok |-> TRUE, p |-> p + 2, v |-> <<"str", k[2]>>]
                      [] k[1] = "n" -> [ok |-> TRUE, p |-> p + 1, v |-> <<"num", k[2]>>]
                      [] k[1] = "w" -> [ok |-> TRUE, p |-> p + 1, v |-> <<"lit", "">>]
                      [] k = <<"c", "{">> ->
                           LET r == parse["pairs", p + 1] IN [r EXCEPT !.v = <<"obj", @>>]
                      [] k = <<"c", "[">> ->
                           LET r == parse["items", p + 1] IN [r EXCEPT !.v = <<"arr", @>>]
                      [] OTHER -> NoValue)
              [] what = "pairs" ->
                   IF k \in {<<"c", "}">>, <<"end", "">>}
                   THEN [ok |-> TRUE, p |-> IF k[1] = "c" THEN p + 1 ELSE p, v |-> <<>>]
                   ELSE IF k[1] # "s" \/ Tok(t, c) # <<"c", ":">> THEN NoValue
                   ELSE LET x == parse["value", c + 1]
                            r == parse["pairs", SkipComma(t, x.p)]
                        IN  IF x.ok /\ r.ok THEN [r EXCEPT !.v = << <<k[2], x.v>> >> \o @]
                            ELSE NoValue
              [] what = "items" ->
                   IF k \in {<<"c", "]">>, <<"end", "">>}
                   THEN [ok |-> TRUE, p |-> IF k[1] = "c" THEN p + 1 ELSE p, v |-> <<>>]
                   ELSE LET x == parse["value", p]
                            r == parse["items", SkipComma(t, x.p)]
                        IN  IF x.ok /\ r.ok THEN [r EXCEPT !.v = <<x.v>> \o @] ELSE NoValue
  IN  parse["value", 1]

\* json_get: the first value with that key; and the typed getters.
JsonGet(v, key) ==
  LET at == IF v[1] # "obj" THEN {} ELSE {i \in DOMAIN v[2] : v[2][i][1] = key}
  IN  IF at = {} THEN <<"none", "">> ELSE v[2][Min(at)][2]

JsonString(v, key) == LET x == JsonGet(v, key) IN IF x[1] = "str" THEN x[2] ELSE ""

JsonNumber(v, key) ==
  LET x == JsonGet(v, key)
  IN  CASE x[1] = "num" -> x[2]
        [] x[1] = "str" /\ x[2] \in DOMAIN Numeral -> Numeral[x[2]]
        [] OTHER -> 0

JsonInt(v, key) == JsonNumber(v, key) \div 10

----------------------------------------------------------------------------
(* The table.  Only the fields the operations look at are kept; numbers are   *)
(* kept as integers but for size_gb, in tenths.                               *)

IntFields == {"year", "rating", "peers", "downloads"}
Fields    == IntFields \cup {"size_gb"}

\* One turn of catalog_load_from_string's loop: the rating is cut to an integer and
\* scaled by ten, the hash is the given one or the one in the magnet link.
EntryOf(v) ==
  LET magnet == JsonString(v, "magnet")
      hash   == JsonString(v, "info_hash")
  IN  [title |-> JsonString(v, "title"), genre |-> JsonString(v, "genre"),
       description |-> JsonString(v, "description"),
       type |-> IF JsonString(v, "category") = "series" THEN "series" ELSE "movie",
       num |-> [f \in Fields |->
                  IF f = "rating" THEN JsonInt(v, f) * 10
                  ELSE IF f \in IntFields THEN JsonInt(v, f) ELSE JsonNumber(v, f)],
       info_hash |-> IF hash # "" THEN hash
                     ELSE IF magnet \in DOMAIN Btih THEN Btih[magnet] ELSE ""]

\* catalog_grow: 16, then twice the room every time it is called.  realloc may fail in
\* one call and succeed in a later one.
Grown(capacity) == IF capacity = 0 THEN FirstCapacity ELSE 2 * capacity

\* catalog_load_from_string, when its first `allocs' allocations succeed and the next
\* one fails: the parser's, the copy of the document, and one per entry, for each of
\* which the table grows.  The entries of an earlier load, and those read before the
\* failure, stay.
LoadString(c, doc, allocs) ==
  LET root  == JsonParse(doc.t)
      items == root.v[2]
      b     == [c EXCEPT !.raw = IF allocs = 1 THEN NoFile ELSE doc]
      load[i \in 0 .. Len(items)] ==
        IF i = 0 THEN [b EXCEPT !.ok = TRUE]
        ELSE IF i + 2 > allocs THEN [load[i - 1] EXCEPT !.ok = FALSE]
        ELSE [load[i - 1] EXCEPT !.capacity = Grown(@),
                                 !.entries = Append(@, EntryOf(items[i]))]
  IN  CASE allocs = 0 \/ ~root.ok \/ root.v[1] # "arr" -> [c EXCEPT !.ok = FALSE]
        [] allocs = 1 -> [b EXCEPT !.ok = FALSE]
        [] OTHER -> load[Len(items)]

\* catalog_load_from_file; its buffer counts among the parser's allocations.
LoadFile(c, doc, allocs) ==
  IF doc = NoFile THEN [c EXCEPT !.ok = FALSE] ELSE LoadString(c, doc, allocs)

\* catalog_sort: insertion sort, titles upwards, numbers downwards.
TextRank(x) == CHOOSE i \in DOMAIN TextOrder : TextOrder[i] = x


ShouldSwap(field, a, b) ==
  IF field = "title" THEN TextRank(a.title) > TextRank(b.title) ELSE a.num[field] < b.num[field]

Sorted(s, field) ==
  LET insert(done, e) ==
        LET stays == {j \in DOMAIN done : ~ShouldSwap(field, done[j], e)}
            at    == IF stays = {} THEN 0 ELSE Max(stays)
        IN  SubSeq(done, 1, at) \o <<e>> \o SubSeq(done, at + 1, Len(done))
  IN  FoldLeft(insert, <<>>, s)

\* The searches that return the first entry with some property, or none (0).
FirstWith(s, P(_)) == LET at == {i \in DOMAIN s : P(s[i])} IN IF at = {} THEN 0 ELSE Min(at)

In(query, text) == <<text, query>> \in Found

\* catalog_search: the first pass counts, the second fills the table it sized.
MatchCount(s, q) ==
  Cardinality({i \in DOMAIN s : In(q, s[i].title) \/ In(q, s[i].description) \/ In(q, s[i].genre)})

Reason(e, q) == CASE In(q, e.title) -> 100 [] In(q, e.description) -> 80
                  [] In(q, e.genre) -> 60 [] OTHER -> 0

SearchMatches(s, q) == SelectSeq([i \in DOMAIN s |-> [entry |-> i, score |-> Reason(s[i], q)]],
                           LAMBDA m : m.score > 0)

\* catalog_get_stats
Stats(s) == [movies |-> Cardinality({i \in DOMAIN s : s[i].type = "movie"}),
             series |-> Cardinality({i \in DOMAIN s : s[i].type # "movie"}),
             rating |-> FoldSeq(LAMBDA e, n : n + e.num["rating"], 0, s)]

----------------------------------------------------------------------------
(* The two programs: the user interface's main, and clients of the library   *)
(* such as the demo under MOVIE_CATALOG_TEST.                                 *)

CatInits == {[pc |-> "start", files |-> f, entries |-> <<>>, capacity |-> 0, raw |-> NoFile,
              ok |-> FALSE, last |-> [op |-> "none"], ops |-> 0,
              screen |-> "none", listed |-> <<>>, entry |-> 0, downloads |-> 0] : f \in FilePairs}
CatInit == cat \in CatInits

Call(c, op) == [c EXCEPT !.last = op, !.ops = @ + 1]

\* main loads the first path, and the second if that failed; the demo only the one.
CatalogCreate ==
  /\ cat.pc = "start"
  /\ \E pc \in {"ui_load", "client_load", "exit"} : cat' = [cat EXCEPT !.pc = pc]

CatalogLoad ==
  /\ cat.pc \in {"ui_load", "client_load"}
  /\ \E a \in {LoadFile(cat, cat.files[1], n) : n \in 0 .. MaxAllocs} :
       \E b \in IF a.ok \/ cat.pc = "client_load" THEN {a}
                ELSE {LoadFile(a, cat.files[2], n) : n \in 0 .. MaxAllocs} :
         cat' = [b EXCEPT !.pc = IF cat.pc = "ui_load" THEN "ui_init"
                                 ELSE IF b.ok THEN "client" ELSE "exit"]

Client == cat.pc = "client" /\ cat.ops < MaxOps

\* catalog_add_entry, which grows only when full; catalog_remove_entry; catalog_sort.
AddEntry ==
  /\ Client
  /\ \E e \in NewEntries, grows \in BOOLEAN :
       LET full == Len(cat.entries) >= cat.capacity
           ok   == ~full \/ grows
       IN  cat' = Call([cat EXCEPT !.entries = IF ok THEN Append(@, e) ELSE @,
                                   !.capacity = IF full /\ ok THEN Grown(@) ELSE @],
                       [op |-> "add"])

RemoveEntry ==
  /\ Client
  /\ \E i \in DOMAIN cat.entries :
       cat' = Call([cat EXCEPT !.entries = RemoveAt(@, i)], [op |-> "remove"])

CatalogSort ==
  /\ Client
  /\ \E f \in {"title"} \cup Fields :
       cat' = Call([cat EXCEPT !.entries = Sorted(@, f)],
                   [op |-> "sort", field |-> f, before |-> cat.entries])

\* catalog_search_by_title, _by_genre, _by_min_rating, _get_by_hash, _filter_by_type,
\* and the statistics.
Lookup ==
  /\ Client
  /\ \E q \in Queries :
       \E hit \in {FirstWith(cat.entries, LAMBDA e : In(q, e.title)),
                   FirstWith(cat.entries, LAMBDA e : In(q, e.genre)),
                   FirstWith(cat.entries, LAMBDA e : e.num["rating"] >= 80),
                   FirstWith(cat.entries, LAMBDA e : e.info_hash = q),
                   FirstWith(cat.entries, LAMBDA e : e.type = "series")} :
         cat' = Call(cat, [op |-> "lookup", hit |-> hit, stats |-> Stats(cat.entries)])

\* catalog_get_random_entry
RandomEntry ==
  /\ Client /\ cat.entries # <<>>
  /\ \E i \in DOMAIN cat.entries : cat' = Call(cat, [op |-> "lookup", hit |-> i,
                                                     stats |-> Stats(cat.entries)])

\* catalog_export_to_file writes the document as it was read, whatever happened since.
ExportCatalog ==
  /\ Client /\ cat' = Call(cat, [op |-> "export", wrote |-> cat.raw])

CatalogDestroy ==
  /\ cat.pc \in {"client", "ui"}
  /\ cat' = [cat EXCEPT !.pc = "exit", !.entries = <<>>, !.capacity = 0, !.raw = NoFile,
                        !.last = [op |-> "none"], !.screen = "none", !.listed = <<>>, !.entry = 0]

----------------------------------------------------------------------------
(* The user interface.  A card or a result holds a pointer to its entry.       *)

\* createCatalogGrid
Grid(c) == [c EXCEPT !.screen = "grid", !.listed = [i \in DOMAIN c.entries |-> i], !.entry = 0]

Ui == cat.pc = "ui" /\ cat.ops < MaxOps

\* CatalogUI::init; when borealis does not come up main destroys the catalog.
UiInit ==
  /\ cat.pc = "ui_init"
  /\ \/ cat' = [Grid(cat) EXCEPT !.pc = "ui"]
     \/ cat' = [cat EXCEPT !.pc = "exit", !.entries = <<>>, !.capacity = 0, !.raw = NoFile]

NavigateBack ==
  /\ Ui /\ cat.screen # "grid" /\ cat' = Call(Grid(cat), [op |-> "back"])

ShowMovieDetails ==
  /\ Ui
  /\ \E i \in DOMAIN cat.listed :
       cat' = Call([cat EXCEPT !.screen = "details", !.listed = <<>>, !.entry = cat.listed[i]],
                   [op |-> "details"])

\* showDownloadsPanel and showSettings, from the grid.
ShowPanel ==
  /\ Ui /\ cat.screen = "grid"
  /\ \E s \in {"downloads", "settings", "search"} :
       cat' = Call([cat EXCEPT !.screen = s, !.listed = <<>>], [op |-> "panel"])

\* The search button appends its results to the list on every press.
SearchPressed ==
  /\ Ui /\ cat.screen = "search"
  /\ \E q \in Queries : \E m \in {SearchMatches(cat.entries, q)} :
       LET n == MatchCount(cat.entries, q)
       IN  cat' = Call([cat EXCEPT !.listed = @ \o [i \in 1 .. n |-> m[i].entry]],
                       [op |-> "search", query |-> q, count |-> n, matches |-> m])

\* startDownload calls catalog_start_download, which only reports.
StartDownload ==
  /\ Ui /\ cat.screen = "details"
  /\ cat' = Call([cat EXCEPT !.downloads = @ + 1], [op |-> "download"])

CatNext == \/ CatalogCreate \/ CatalogLoad \/ AddEntry \/ RemoveEntry \/ CatalogSort
           \/ Lookup \/ RandomEntry \/ ExportCatalog \/ CatalogDestroy
           \/ UiInit \/ NavigateBack \/ ShowMovieDetails \/ ShowPanel \/ SearchPressed
           \/ StartDownload

----------------------------------------------------------------------------
(* Properties.                                                             *)

\* What an entry keeps of the row it stands for: its texts, its numbers cut to whole
\* ones (the rating in tenths, cut to a whole point), the given hash or the link's.
Describes(e, row) ==
  LET first(key) == CHOOSE i \in DOMAIN row : /\ row[i][1] = key
                                              /\ \A j \in 1 .. i - 1 : row[j][1] # key
      given(key) == IF \E i \in DOMAIN row : row[i][1] = key THEN row[first(key)][2] ELSE <<"none", "">>
      text(key)  == IF given(key)[1] = "str" THEN given(key)[2] ELSE ""
      tenths(f)  == CASE given(f)[1] = "num" -> given(f)[2]
                      [] text(f) \in DOMAIN Numeral -> Numeral[text(f)]
                      [] OTHER -> 0
      cut(n, x)  == n % 10 = 0 /\ n <= x /\ x < n + 10
  IN  /\ e.title = text("title") /\ e.genre = text("genre")
      /\ e.description = text("description")
      /\ e.type = "series" <=> text("category") = "series"
      /\ e.num["size_gb"] = tenths("size_gb") /\ cut(e.num["rating"], tenths("rating"))
      /\ \A f \in IntFields \ {"rating"} : cut(10 * e.num[f], tenths(f))
      /\ \/ e.info_hash = text("info_hash") /\ e.info_hash # ""
         \/ text("info_hash") = "" /\ e.info_hash = IF text("magnet") \in DOMAIN Btih
                                                    THEN Btih[text("magnet")] ELSE ""

\* Entries read from the beginning of a document, in its order.
ReadFrom(s, doc) == /\ Len(s) <= Len(doc.rows)
                    /\ \A i \in DOMAIN s : Describes(s[i], doc.rows[i])

\* The table main ends up with, from the entries of the first path and of the second.
\* If a load succeeded then all its rows are there and raw_json is its document.
LoadedInOrder(c, a, b) ==
  /\ ReadFrom(a, c.files[1]) /\ ReadFrom(b, c.files[2])
  /\ c.ok => \/ c.raw = c.files[1] /\ b = <<>> /\ Len(a) = Len(c.files[1].rows)
             \/ c.raw = c.files[2] /\ Len(b) = Len(c.files[2].rows)

\* The groups of entries that compare equal, in the order of the field, each in the
\* order it had before.
StableSort(before, field) ==
  LET key(e) == IF field = "title" THEN TextRank(e.title) ELSE -e.num[field]
      keys   == SetToSortSeq({key(before[i]) : i \in DOMAIN before}, LAMBDA a, b : a < b)
  IN  FlattenSeq([k \in DOMAIN keys |-> SelectSeq(before, LAMBDA e : key(e) = keys[k])])

=============================================================================
