------------------------------- MODULE MCParts -------------------------------
(***************************************************************************)
(* Small instances of the parts that share no state.  A behaviour is that  *)
(* of one part, the one in focus; the others rest in one initial state.    *)
(***************************************************************************)
EXTENDS Session, Tracker, Stream, Storage, Metainfo, Catalog, Utp

VARIABLE focus

partsVars == <<focus, sessionVars, trackerVars, streamVars, storageVars, metaVars, catVars,
               utpVars>>

----------------------------------------------------------------------------
(* Session, Stream, Storage, Utp.                                          *)

MCPort    == [t \in Torrents |-> IF t = "t1" THEN 1 ELSE 0]
MCScript  == <<0, 3, 1, 3>>
MCLayouts == {<<1>>, <<2, 0, 2>>, <<0, 1, 2>>}
MCFirstSeqs == [here |-> {3, 17}, there |-> {19}]
MCWrites   == [here |-> 3, there |-> 0]

----------------------------------------------------------------------------
(* Torrent files.                                                          *)

Hashes(k) == BStr([i \in 1 .. k |-> "h"])
Entry(n, comps) == BDict(<< <<"length", BInt(n)>>, <<"path", BList(comps)>> >>)
Info(name, pl, pieces, files) ==
  BDict(<< <<"name", BStr(name)>>, <<"piece length", BInt(pl)>>, <<"pieces", pieces>> >> \o files)
Single(n) == << <<"length", BInt(n)>> >>
Multi(lens, path) == << <<"files", BList([i \in DOMAIN lens |-> Entry(lens[i], path)])>> >>
Nest(n) == LET nest[k \in 0 .. n] == IF k = 0 THEN BInt(1) ELSE BList(<<nest[k - 1]>>) IN nest[n]
Plain == <<BStr(<<"a">>)>>
Good == Info(<<"a">>, 2, Hashes(2), Single(3))
Doc(lens, keys) == [t |-> BDict(keys), lens |-> lens]

\* Every layout of up to three files against every piece count.
Tilings ==
  {Doc(lens, << <<"info", Info(<<"a">>, pl, Hashes(k), Multi(lens, Plain))>> >>) :
     lens \in UNION {[1 .. n -> 0 .. 3] : n \in 0 .. 3} \cup {<<4>>, <<0, 0, 0, 0>>},
     pl \in {0, 2, 3}, k \in 0 .. 4}

\* Names and paths, among them ones that leave the directory or do not fit.
Names == {<<"a">>, <<"a", "b">>, <<"..">>, <<"a", "..", "b">>, <<"">>, <<"", "a">>, <<"long">>,
          <<"back\\slash">>}
Paths == {Doc(<<1>>, << <<"info", Info(n, 2, Hashes(1), Multi(<<1>>, <<BStr(p), BStr(q)>>))>> >>) :
            n, p, q \in Names}
         \cup {Doc(<<1>>, << <<"info", Info(n, 2, Hashes(1), Single(1))>> >>) : n \in Names}

\* Unknown keys around the info dictionary, nested up to and past the limit, a
\* second info dictionary, a cut document, ragged hashes, a file that is none.
Surroundings ==
  {Doc(<<3>>, << <<"x", Nest(d)>>, <<"info", Good>>, <<"info", Nest(e)>> >>) :
     d, e \in 0 .. MaxDepth + 1}
  \cup {[t |-> SubSeq(BDict(<< <<"info", Good>> >>), 1, k), lens |-> <<3>>] : k \in 0 .. 11}
  \cup {Doc(<<3>>, << <<"info", Info(<<"a">>, 2, BStr(<<"h", "h", "r">>), Single(3))>> >>),
        Doc(<<1>>, << <<"info", Info(<<"a">>, 2, Hashes(1),
                         << <<"files", BList(<<Entry(1, Plain), BInt(7)>>)>> >>)>> >>)}

\* Tracker tiers and web seeds at their limits.
Url(u) == BStr(<<u>>)
Announces ==
  {Doc(<<3>>, << <<"announce", Url(u)>>,
                 <<"announce-list", BList([i \in 1 .. n |-> BList(<<Url(u), Url("u")>>)])>>,
                 <<"info", Good>>, <<"url-list", w>> >>) :
     u \in {"u", "long"}, n \in 0 .. 2,
     w \in {Url(""), Url("w"), BList(<<Url("w"), BInt(1), Url("v")>>)}}

MCDocuments == Tilings \cup Paths \cup Surroundings \cup Announces

----------------------------------------------------------------------------
(* Catalogs.  Spaced documents have a space after every value.             *)

Char(x) == <<"c", x>>
JsonTok(v) == CASE v[1] = "str" -> <<"s", v[2]>> [] v[1] = "num" -> <<"n", v[2]>>
                [] OTHER -> <<"w", "">>
Comma(i, s) == IF i < Len(s) THEN <<Char(",")>> ELSE <<>>
JsonRow(row, spaced) ==
  <<Char("{")>>
  \o FlattenSeq([i \in DOMAIN row |->
       << <<"s", row[i][1]>>, Char(":"), Char(" "), JsonTok(row[i][2])>>
       \o (IF spaced THEN <<Char(" ")>> ELSE <<>>) \o Comma(i, row)])
  \o <<Char("}")>>
JsonDoc(rows, spaced) ==
  [t |-> <<Char("[")>>
         \o FlattenSeq([i \in DOMAIN rows |-> JsonRow(rows[i], spaced) \o Comma(i, rows)])
         \o <<Char("]")>>,
   rows |-> rows, spaced |-> spaced]

Str(x) == <<"str", x>>
Num(n) == <<"num", n>>
RowA == << <<"title", Str("Up")>>, <<"genre", Str("Drama")>>, <<"year", Num(20)>>,
           <<"rating", Str("8.7")>>, <<"info_hash", Str("h1")>> >>
RowB == << <<"title", Str("Matrix")>>, <<"category", Str("series")>>, <<"year", Str("8.7")>>,
           <<"magnet", Str("link2")>>, <<"rating", Num(90)>>, <<"rating", Num(10)>> >>
RowC == << <<"title", Str("Up")>>, <<"x", <<"lit", "">>>>, <<"year", Num(20)>>,
           <<"description", Str("matrix")>>, <<"info_hash", Str("h3")>>,
           <<"size_gb", Num(15)>>, <<"downloads", Num(25)>> >>

MCNoFile == [t |-> <<>>, rows |-> <<>>, spaced |-> FALSE]
Catalogs == {JsonDoc(rows, s) :
               rows \in {<<>>, <<RowA>>, <<RowA, RowB, RowC>>, <<RowC, RowB, RowA, RowB>>},
               s \in BOOLEAN}
            \cup {[t |-> <<Char("{"), Char("}")>>, rows |-> <<>>, spaced |-> TRUE], MCNoFile}
MCFilePairs == {<<a, b>> : a \in Catalogs, b \in {MCNoFile, JsonDoc(<<>>, TRUE), JsonDoc(<<RowB>>, TRUE)}}

MCTextOrder  == <<"", "Drama", "Matrix", "Up", "matrix">>
MCFound      == {<<x, "">> : x \in ToSet(MCTextOrder)}
                \cup {<<"Matrix", "matrix">>, <<"matrix", "matrix">>, <<"Drama", "Drama">>}
MCNumeral    == "8.7" :> 87
MCBtih       == "link2" :> "h2"
MCNewEntries == {EntryOf(<<"obj", << <<"title", Str("Matrix")>>, <<"year", Num(20)>>,
                                     <<"info_hash", Str(h)>> >> >>) : h \in {"h8", "h9"}}

----------------------------------------------------------------------------

Focused(f, inits) == IF focus = f THEN inits ELSE {CHOOSE s \in inits : TRUE}

PartsInit ==
  /\ focus \in {"session", "tracker", "send", "recv", "storage", "metainfo", "catalog", "utp"}
  /\ SessionInit /\ UtpInit
  /\ trk \in Focused("tracker", TrackerInits)
  /\ snd \in Focused("send", SendInits)
  /\ rcv \in Focused("recv", RecvInits)
  /\ sto \in Focused("storage", {i \in StorageInits : focus = "storage" \/ i.lens = <<1>>})
  /\ meta \in IF focus = "metainfo" THEN MetaInits ELSE {m \in MetaInits : m.doc.t = <<>>}
  /\ cat \in IF focus = "catalog" THEN CatInits ELSE {c \in CatInits : c.files = <<NoFile, NoFile>>}

PartsNext ==
  /\ UNCHANGED focus
  /\ \/ /\ focus = "session" /\ SessionNext
        /\ UNCHANGED <<trackerVars, streamVars, storageVars, metaVars, catVars, utpVars>>
     \/ /\ focus = "tracker" /\ TrackerNext
        /\ UNCHANGED <<sessionVars, streamVars, storageVars, metaVars, catVars, utpVars>>
     \/ /\ focus = "send" /\ (SendSetup \/ Offer \/ Writable \/ Break)
        /\ UNCHANGED <<sessionVars, trackerVars, storageVars, metaVars, catVars, utpVars>>
     \/ /\ focus = "recv" /\ Recv
        /\ UNCHANGED <<sessionVars, trackerVars, storageVars, metaVars, catVars, utpVars>>
     \/ /\ focus = "storage" /\ StorageNext
        /\ UNCHANGED <<sessionVars, trackerVars, streamVars, metaVars, catVars, utpVars>>
     \/ /\ focus = "metainfo" /\ MetaNext
        /\ UNCHANGED <<sessionVars, trackerVars, streamVars, storageVars, catVars, utpVars>>
     \/ /\ focus = "catalog" /\ CatNext
        /\ UNCHANGED <<sessionVars, trackerVars, streamVars, storageVars, metaVars, utpVars>>
     \/ /\ focus = "utp" /\ UtpNext
        /\ UNCHANGED <<sessionVars, trackerVars, streamVars, storageVars, metaVars, catVars>>

\* Only the sessions' liveness is checked here, under their own fairness.
PartsSpec == PartsInit /\ [][PartsNext]_partsVars /\ SessionFairness /\ SearchesComeDue
=============================================================================
