------------------------------ MODULE Metainfo -------------------------------
(***************************************************************************)
(* Reading a .torrent file: the bencode reader (core/bencode.c) and        *)
(* metainfo_parse (core/metainfo.c), as functions over token sequences.    *)
(*                                                                         *)
(* A token is an integer, a string, or the start or end of a list or a     *)
(* dictionary.  A string is the sequence of its parts between slashes, so  *)
(* that joining path components is concatenation and a slash inside a      *)
(* component is seen; the "pieces" string is one part "h" per hash, and    *)
(* "r" for bytes that do not make a hash.                                  *)
(***************************************************************************)
EXTENDS Integers, Sequences, SequencesExt, FiniteSetsExt

CONSTANTS MaxDepth,       \* BE_MAX_DEPTH
          MaxPieceLength, \* MAX_PIECE_LENGTH
          MaxTotalLength, \* MAX_TOTAL_LENGTH
          CounterRange,   \* 2^32, what num_pieces can count
          MaxFiles,       \* MAX_FILES
          MaxName,        \* MAX_NAME_LEN
          MaxTrackers,    \* MAX_TRACKERS
          MaxWebSeeds,    \* MAX_WEB_SEEDS
          Documents       \* the files considered: tokens t, and the file lengths
                          \* lens that were written into them

ASSUME MetainfoAssumption == /\ MaxDepth \in Nat /\ MaxFiles \in Nat
                             /\ MaxTrackers \in Nat /\ MaxWebSeeds \in Nat
                             /\ CounterRange \in Nat \ {0}

VARIABLE meta

metaVars == <<meta>>

----------------------------------------------------------------------------
(* Writing documents.                                                      *)

BInt(n)      == << <<"i", n>> >>
BStr(parts)  == << <<"s", parts>> >>
BList(items) == << <<"l">> >> \o FlattenSeq(items) \o << <<"e">> >>
BDict(pairs) == << <<"d">> >> \o FlattenSeq([i \in DOMAIN pairs |->
                                  BStr(<<pairs[i][1]>>) \o pairs[i][2]]) \o << <<"e">> >>

----------------------------------------------------------------------------
(* bencode.c.  Positions are 1 .. Len(t) + 1; 0 is a failure.              *)

Kind(t, p) == IF p \in DOMAIN t THEN t[p][1] ELSE "end"

\* be_skip: after the value at p.  A list or dictionary is read to its end, one
\* level deeper; a value below BE_MAX_DEPTH is refused.
Skip(t, start) ==
  LET skip[what \in {"value", "list", "dict"}, p \in 1 .. Len(t) + 1, d \in 0 .. MaxDepth + 1] ==
        CASE what = "value" ->
               IF d > MaxDepth THEN 0
               ELSE CASE Kind(t, p) \in {"i", "s"} -> p + 1
                      [] Kind(t, p) = "l" -> skip["list", p + 1, d]
                      [] Kind(t, p) = "d" -> skip["dict", p + 1, d]
                      [] OTHER -> 0
          [] what = "list" ->
               IF Kind(t, p) = "e" THEN p + 1 ELSE IF Kind(t, p) = "end" THEN 0
               ELSE LET q == skip["value", p, d + 1] IN IF q = 0 THEN 0 ELSE skip["list", q, d]
          [] what = "dict" ->
               IF Kind(t, p) = "e" THEN p + 1 ELSE IF Kind(t, p) # "s" THEN 0
               ELSE LET q == skip["value", p + 1, d + 1]
                    IN  IF q = 0 THEN 0 ELSE skip["dict", q, d]
  IN  skip["value", start, 0]

\* be_dict_get: where the value of the first such key starts.
DictGet(t, at, key) ==
  LET get[p \in 1 .. Len(t) + 1] ==
        IF Kind(t, p) # "s" THEN 0
        ELSE LET q == Skip(t, p + 1)
             IN  IF q = 0 THEN 0 ELSE IF t[p][2] = <<key>> THEN p + 1 ELSE get[q]
  IN  IF at = 0 \/ Kind(t, at) # "d" THEN 0 ELSE get[at + 1]

\* be_list_next, repeated: where the items of the list at p start.
Items(t, at) ==
  LET next[p \in 1 .. Len(t) + 1] ==
        IF Kind(t, p) \in {"e", "end"} \/ Skip(t, p) = 0 THEN <<>> ELSE <<p>> \o next[Skip(t, p)]
  IN  next[at + 1]

\* The value of a key if it has the kind asked for; 0 if not.
Get(t, at, key, kind) ==
  LET p == DictGet(t, at, key) IN IF p # 0 /\ Kind(t, p) = kind THEN p ELSE 0

----------------------------------------------------------------------------
(* metainfo.c.                                                             *)

PartLen(part) == CASE part = "" -> 0 [] part = "." -> 1 [] part = ".." -> 2
                   [] part = "long" -> MaxName [] OTHER -> 1
StrLen(parts) == FoldSeq(LAMBDA x, n : n + PartLen(x), Len(parts) - 1, parts)

\* metainfo_path_is_safe: no empty path, no leading slash, no empty, "." or ".."
\* component, no backslash, and it fits.
PathIsSafe(parts) ==
  /\ parts # <<>> /\ StrLen(parts) < MaxName
  /\ \A i \in DOMAIN parts : parts[i] \notin {"", ".", "..", "back\\slash"}

\* strncpy_safe cuts a name that does not fit.
CutName(parts) == IF StrLen(parts) < MaxName THEN parts ELSE <<"cut">>

NameOf(t, info) == LET p == Get(t, info, "name", "s")
                   IN  IF p = 0 THEN <<"unknown">> ELSE CutName(t[p][2])

LengthOf(t, at) == LET p == Get(t, at, "length", "i") IN IF p = 0 THEN 0 ELSE t[p][2]

\* The path list joined with slashes; one that overflows leaves an empty path.
PathOf(t, at) ==
  LET p     == Get(t, at, "path", "l")
      parts == IF p = 0 THEN <<>>
               ELSE SelectSeq(Items(t, p), LAMBDA q : Kind(t, q) = "s")
      joined == FlattenSeq([i \in DOMAIN parts |-> t[parts[i]][2]])
  IN  IF joined # <<>> /\ StrLen(joined) >= MaxName THEN <<>> ELSE joined

Hole == [length |-> 0, offset |-> 0, path |-> <<>>]

\* Mutant: the offset of the next file is counted before the length is known.
FilesOfShifted(t, items) ==
  LET file[i \in 0 .. Len(items)] ==
        IF i = 0 THEN [at |-> 0, files |-> <<>>]
        ELSE LET f == file[i - 1]
             IN  IF Kind(t, items[i]) # "d" THEN [f EXCEPT !.files = Append(@, Hole)]
                 ELSE [at |-> LengthOf(t, items[i]),
                       files |-> Append(f.files, [length |-> LengthOf(t, items[i]),
                                   offset |-> f.at, path |-> PathOf(t, items[i])])]
  IN  file[Len(items)].files

\* The file table.  An item that is no dictionary leaves its entry empty.
FilesOf(t, items) ==
  LET file[i \in 0 .. Len(items)] ==
        IF i = 0 THEN [at |-> 0, files |-> <<>>]
        ELSE LET f == file[i - 1]
             IN  IF Kind(t, items[i]) # "d" THEN [f EXCEPT !.files = Append(@, Hole)]
                 ELSE [at |-> f.at + LengthOf(t, items[i]),
                       files |-> Append(f.files, [length |-> LengthOf(t, items[i]),
                                   offset |-> f.at, path |-> PathOf(t, items[i])])]
  IN  file[Len(items)].files

\* announce-list flattened, or announce; at most MAX_TRACKERS that fit.
Urls(t, items) == SelectSeq(items, LAMBDA q : Kind(t, q) = "s" /\ t[q][2] # <<"long">>)

TrackersOf(t) ==
  LET al    == Get(t, 1, "announce-list", "l")
      tiers == IF al = 0 THEN <<>> ELSE SelectSeq(Items(t, al), LAMBDA q : Kind(t, q) = "l")
      all   == FlattenSeq([i \in DOMAIN tiers |-> Urls(t, Items(t, tiers[i]))])
      an    == Get(t, 1, "announce", "s")
  IN  IF all # <<>> THEN SubSeq(all, 1, Min({MaxTrackers, Len(all)}))
      ELSE IF an = 0 THEN <<>> ELSE Urls(t, <<an>>)

\* url-list: one string or a list of them; empty ones do not count.
WebSeedsOf(t) ==
  LET ul  == DictGet(t, 1, "url-list")
      all == IF ul = 0 THEN <<>>
             ELSE SelectSeq(Urls(t, IF Kind(t, ul) = "l" THEN Items(t, ul) ELSE <<ul>>),
                            LAMBDA q : t[q][2] # <<"">>)
  IN  SubSeq(all, 1, Min({MaxWebSeeds, Len(all)}))

SumLengths(files) == FoldSeq(LAMBDA f, n : n + f.length, 0, files)

\* The last test: the piece count, in 32 bits, follows from the length.
PiecesMatch(n, total, pl) == n = ((total + pl - 1) \div pl) % CounterRange

Rejected == [ok |-> FALSE]

\* The info dictionary of a document that is one dictionary; 0: there is none, and
\* neither is any key below it.
InfoOf(t) == IF Kind(t, 1) = "d" /\ Skip(t, 1) # 0 THEN Get(t, 1, "info", "d") ELSE 0

\* The "files" list, or the one file the info dictionary itself describes.
FileTable(t, info, list, items, name) ==
  IF list # 0 THEN FilesOf(t, items)
  ELSE <<[length |-> LengthOf(t, info), offset |-> 0, path |-> name]>>

\* What metainfo_parse returns once its parts are read: pl and pcs are where piece
\* length and hashes are, holes the entries of items that are no dictionaries.
Parsed(t, pl, pcs, list, name, files, holes) ==
  IF /\ PathIsSafe(name)
     /\ pl # 0 /\ t[pl][2] \in 1 .. MaxPieceLength
     /\ pcs # 0 /\ "r" \notin ToSet(t[pcs][2])
     /\ Len(files) <= MaxFiles
     /\ \A i \in DOMAIN files \ holes : /\ files[i].length \in 0 .. MaxTotalLength
                                       /\ PathIsSafe(files[i].path)
     /\ PiecesMatch(Len(t[pcs][2]), SumLengths(files), t[pl][2])
  THEN [ok |-> TRUE, name |-> name, piece_length |-> t[pl][2],
        num_pieces |-> Len(t[pcs][2]), is_multi |-> list # 0, files |-> files,
        total_length |-> SumLengths(files), trackers |-> TrackersOf(t),
        web_seeds |-> WebSeedsOf(t), holes |-> Cardinality(holes)]
  ELSE Rejected

----------------------------------------------------------------------------
(* metainfo_load and metainfo_free.                                        *)

MetaInits == {[doc |-> d, mi |-> Rejected, pc |-> "file"] : d \in Documents}
MetaInit  == meta \in MetaInits

\* A file of another size than 1 byte .. 10 MiB is not read.
LoadMetainfo ==
  /\ meta.pc = "file"
  /\ \E t \in {meta.doc.t} :
     \E info \in {InfoOf(t)} :
     \E list \in {Get(t, info, "files", "l")}, name \in {NameOf(t, info)},
        pl \in {Get(t, info, "piece length", "i")}, pcs \in {Get(t, info, "pieces", "s")} :
     \E items \in {IF list = 0 THEN <<>> ELSE Items(t, list)} :
     \E files \in {FileTable(t, info, list, items, name)} :
     \E holes \in {{i \in DOMAIN items : Kind(t, items[i]) # "d"}} :
       meta' = [meta EXCEPT !.mi = Parsed(t, pl, pcs, list, name, files, holes),
                            !.pc = "parsed"]

FreeMetainfo ==
  /\ meta.pc = "parsed"
  /\ meta' = [meta EXCEPT !.mi = Rejected, !.pc = "freed"]

MetaNext == LoadMetainfo \/ FreeMetainfo

----------------------------------------------------------------------------
(* Properties.                                                             *)

\* What the rest of the program takes for granted of an accepted torrent
\* (core/platform_storage.c, "laid out contiguously in ascending flat-offset
\* order (the cumulative sum from the metainfo)"; core/piece.c indexes at
\* idx * piece_length): the files are the ones in the document, whatever unknown
\* keys surround them, and tile the flat space, the pieces cover it exactly, and
\* no path leaves the output directory.  It holds while every item
\* of "files" is a dictionary and the piece count fits its 32-bit counter.
LayoutTight ==
  meta.mi.ok /\ meta.mi.holes = 0 =>
    LET mi == meta.mi
    IN  /\ [i \in DOMAIN mi.files |-> mi.files[i].length] = meta.doc.lens
        /\ \A i \in DOMAIN mi.files :
             /\ mi.files[i].offset = SumLengths(SubSeq(mi.files, 1, i - 1))
             /\ mi.files[i].path # <<>>
             /\ ToSet(mi.files[i].path) \cap {"", ".", ".."} = {}
        /\ (mi.total_length + mi.piece_length - 1) \div mi.piece_length < CounterRange =>
             /\ mi.num_pieces * mi.piece_length >= mi.total_length
             /\ (mi.num_pieces - 1) * mi.piece_length < mi.total_length
=============================================================================
