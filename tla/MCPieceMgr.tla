----------------------------- MODULE MCPieceMgr -----------------------------
(* PieceMgr on two instances.  "Data": a piece of two blocks, so that pieces *)
(* can be partly received and buffers reused.  "Order": three pieces of all  *)
(* storage classes and a download order that differs from the piece order    *)
(* and holds an entry that is no piece of the torrent.                       *)
EXTENDS PieceMgr, TLC

DataCounts  == 0 :> 2 @@ 1 :> 1
DataClasses == 0 :> "disk" @@ 1 :> "sink"
DataOrder   == <<1, 0>>

OrderCounts  == 0 :> 1 @@ 1 :> 1 @@ 2 :> 1
OrderClasses == 0 :> "disk" @@ 1 :> "sink" @@ 2 :> "skip"
OrderOrder   == <<1, 7, 0, 2>>
=============================================================================
