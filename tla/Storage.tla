------------------------------- MODULE Storage -------------------------------
(***************************************************************************)
(* The flat byte space of a torrent over its files                         *)
(* (core/platform_storage.c): files on disk, skipped files, and files      *)
(* streamed into a sink.  A byte written is its flat offset with the       *)
(* generation of the write, so that a byte in the wrong place, or an old   *)
(* one, shows.  stdio's buffering is left to the operating system: a write *)
(* that fwrite took is read back.                                          *)
(***************************************************************************)
EXTENDS Integers, Sequences, FiniteSets, FiniteSetsExt

CONSTANTS Layouts,     \* the file lengths of the torrents considered
          Ready,       \* ready_bytes of every sink
          Generations  \* which write a byte comes from

ASSUME StorageAssumption == /\ \A l \in Layouts : l \in Seq(Nat) /\ l # <<>>
                            /\ Ready \in Nat /\ 0 \notin Generations

VARIABLE sto

storageVars == <<sto>>

Modes == {"DISK", "SKIP", "SINK"}

\* What becomes of a file's path: it fits, it does not fit the buffer or is too
\* long for the file system (both: the fallback name), or neither name works.
PathKinds == {"fits", "long", "toolong", "hopeless"}

Blank(lens) == [f \in DOMAIN lens |-> [x \in 0 .. lens[f] - 1 |-> <<0, 0>>]]

\* content: file -> local offset -> byte; for a sink, the last byte delivered.
\* want is the specification's view: flat offset -> generation last written.
\* Path troubles are looked at for the first of files that are all on disk.
StorageInits ==
  UNION {{s \in [lens : {lens}, mode : [DOMAIN lens -> Modes],
                 path : [DOMAIN lens -> PathKinds],
                 name : {[f \in DOMAIN lens |-> "none"]},
                 open : {FALSE}, content : {Blank(lens)},
                 want : {[x \in 0 .. FoldFunction(+, 0, lens) - 1 |-> 0]}] :
            \A f \in DOMAIN lens :
              s.path[f] # "fits" => f = 1 /\ \A h \in DOMAIN lens : s.mode[h] = "DISK"} :
           lens \in Layouts}

StorageInit == sto \in StorageInits

Files == DOMAIN sto.lens
Total == Cardinality(DOMAIN sto.want)

\* The offset the metainfo gives a file: the sum of the lengths before it.
Offset(f) == LET sum[g \in 0 .. Len(sto.lens)] ==
                   IF g = 0 THEN 0 ELSE sum[g - 1] + sto.lens[g]
             IN  sum[f - 1]

----------------------------------------------------------------------------
(* Lookup.                                                                 *)

\* Mutant: the first file that starts there is taken.
SearchFirst(off) ==
  LET bs[lo, hi \in 0 .. Len(sto.lens)] ==
        IF lo >= hi THEN lo
        ELSE LET mid == lo + (hi - lo) \div 2
             IN  IF Offset(mid + 1) < off THEN bs[mid + 1, hi] ELSE bs[lo, mid]
  IN  IF off = 0 THEN 1 ELSE bs[0, Len(sto.lens)]

\* find_file's binary search: how many files start at or before the offset.
Search(off) ==
  LET bs[lo, hi \in 0 .. Len(sto.lens)] ==
        IF lo >= hi THEN lo
        ELSE LET mid == lo + (hi - lo) \div 2
             IN  IF Offset(mid + 1) <= off THEN bs[mid + 1, hi] ELSE bs[lo, mid]
  IN  bs[0, Len(sto.lens)]

\* 0: no file holds the offset.
FindFile(off) ==
  LET f == Search(off)
  IN  IF f = 0 \/ off >= Offset(f) + sto.lens[f] THEN 0 ELSE f

\* The part of a range of n bytes at off that lies in the file of off.
Segment(off, n) ==
  LET f == FindFile(off) IN Min({sto.lens[f] - (off - Offset(f)), n})

\* The segments of a range, cut by the loops of storage_write, storage_read and
\* the range tests: pairs of offset and length; a length 0 ends the range early.
Segments(off, n) ==
  LET cut[done \in 0 .. n] ==
        IF done = n THEN <<>>
        ELSE IF FindFile(off + done) = 0 THEN << <<off + done, 0>> >>
        ELSE LET k == Segment(off + done, n - done)
             IN  << <<off + done, k>> >> \o cut[done + k]
  IN  cut[0]

Ends(segs) == \E i \in DOMAIN segs : segs[i][2] = 0

ModeAt(seg) == sto.mode[FindFile(seg[1])]

----------------------------------------------------------------------------
(* storage_open_ex and storage_close.                                      *)

\* The name a file is opened under; "none": neither works.
OpenName(f) == IF sto.mode[f] # "DISK" THEN "none"
               ELSE IF sto.path[f] = "fits" THEN "original"
               ELSE IF sto.path[f] \in {"long", "toolong"} THEN "fallback" ELSE "none"

\* Every disk file is opened, and created if it was not there; one that cannot
\* be opened closes the rest.
OpenStorage ==
  /\ ~sto.open
  /\ \A f \in Files : sto.mode[f] = "DISK" => OpenName(f) # "none"
  /\ sto' = [sto EXCEPT !.open = TRUE, !.name = [f \in Files |-> OpenName(f)]]

CloseStorage ==
  /\ sto.open
  /\ sto' = [sto EXCEPT !.open = FALSE]

\* storage_locate_file_path: the original name if such a file exists, or the
\* fallback.
Locate(f) == IF sto.path[f] = "fits" /\ sto.name[f] = "original" THEN "original"
             ELSE IF sto.name[f] = "fallback" THEN "fallback" ELSE "none"

----------------------------------------------------------------------------
(* storage_write.                                                          *)

\* The local offsets of a segment that a write hands on: all of them to the
\* disk, those at or after ready_bytes to a sink.
Handed(seg) ==
  LET f == FindFile(seg[1]) local == seg[1] - Offset(FindFile(seg[1]))
  IN  CASE sto.mode[f] = "SKIP" -> {}
        [] sto.mode[f] = "DISK" -> local .. local + seg[2] - 1
        [] sto.mode[f] = "SINK" -> Max({local, Ready}) .. local + seg[2] - 1

\* The content after segments segs[1 .. k], and the first extra bytes of the next.
Stored(segs, k, extra, g) ==
  [f \in Files |-> [x \in DOMAIN sto.content[f] |->
     LET by == {i \in 1 .. Min({k + 1, Len(segs)}) :
                  /\ segs[i][2] > 0 /\ FindFile(segs[i][1]) = f /\ x \in Handed(segs[i])
                  /\ i = k + 1 => x < segs[i][1] - Offset(f) + extra}
     IN  IF by = {} THEN sto.content[f][x] ELSE <<g, x + Offset(f)>>]]

\* The write of n bytes ends after k whole segments, because they are all, the
\* range leaves the torrent, a sink refuses, or the disk takes only a part.
WriteStorage ==
  /\ sto.open
  /\ \E off \in DOMAIN sto.want, g \in Generations :
     \E n \in 1 .. Total - off :
     \E segs \in {Segments(off, n)} :
     \E k \in 0 .. Len(segs) :
     \E extra \in 0 .. (IF k < Len(segs) /\ ModeAt(segs[k + 1]) = "DISK"
                        THEN segs[k + 1][2] - 1 ELSE 0) :
       /\ k < Len(segs) => ModeAt(segs[k + 1]) # "SKIP"
       /\ \E upto \in {IF k = Len(segs) THEN off + n ELSE segs[k + 1][1] + extra} :
            sto' = [sto EXCEPT !.content = Stored(segs, k, extra, g),
                               !.want = [x \in DOMAIN sto.want |->
                                           IF x \in off .. upto - 1 THEN g ELSE @[x]]]

----------------------------------------------------------------------------
(* storage_read and the range tests.                                       *)

\* What a read returns: the bytes, or <<>> for a failure.
ReadStorage(off, n) ==
  LET segs == Segments(off, n)
  IN  IF Ends(segs) \/ \E i \in DOMAIN segs : ModeAt(segs[i]) # "DISK" THEN <<>>
      ELSE [j \in 1 .. n |->
              LET f == FindFile(off + j - 1)
              IN  sto.content[f][off + j - 1 - Offset(f)]]

RangeReadable(off, n) ==
  LET segs == Segments(off, n)
  IN  ~Ends(segs) /\ \A i \in DOMAIN segs : ModeAt(segs[i]) = "DISK"

RangeSkipped(off, n) ==
  LET segs == Segments(off, n)
      consumed(seg) == ModeAt(seg) = "SINK" /\
                       seg[1] - Offset(FindFile(seg[1])) + seg[2] <= Ready
  IN  ~Ends(segs) /\ \A i \in DOMAIN segs : ModeAt(segs[i]) = "SKIP" \/ consumed(segs[i])

----------------------------------------------------------------------------
StorageNext == OpenStorage \/ CloseStorage \/ WriteStorage

----------------------------------------------------------------------------
(* Properties.                                                             *)

\* The file a flat offset belongs to: the only one whose range holds it.
Owner(x) == CHOOSE f \in Files : x \in Offset(f) .. Offset(f) + sto.lens[f] - 1

\* The byte that should be found for flat offset x.
Wanted(x) == LET f == Owner(x)
             IN  IF sto.want[x] = 0 \/ sto.mode[f] = "SKIP" \/
                    (sto.mode[f] = "SINK" /\ x - Offset(f) < Ready) THEN <<0, 0>>
                 ELSE <<sto.want[x], x>>

\* The files are an image of the flat space: after any sequence of whole, torn
\* and refused writes, over empty files and file boundaries, each byte handed
\* over is at its place in its file and nothing else changed; sinks never see a
\* byte below ready_bytes; reads and range tests agree with the owner of each
\* byte; and a file is found again under the name it was opened with.
FlatImage ==
  /\ \A x \in DOMAIN sto.want : sto.content[Owner(x)][x - Offset(Owner(x))] = Wanted(x)
  /\ sto.open => \A off \in DOMAIN sto.want : \A n \in 1 .. Total - off :
       LET owners == {Owner(x) : x \in off .. off + n - 1}
       IN  /\ RangeReadable(off, n) <=> \A f \in owners : sto.mode[f] = "DISK"
           /\ RangeSkipped(off, n) <=>
                \A x \in off .. off + n - 1 :
                  \/ sto.mode[Owner(x)] = "SKIP"
                  \/ sto.mode[Owner(x)] = "SINK" /\ x - Offset(Owner(x)) < Ready
           /\ RangeReadable(off, n) =>
                ReadStorage(off, n) = [j \in 1 .. n |-> Wanted(off + j - 1)]
  /\ sto.open => \A f \in Files : sto.mode[f] = "DISK" => Locate(f) = sto.name[f]
=============================================================================
