--------------------------- MODULE MCBufferedVec ---------------------------
(* The profiles of callers for model checking BufferedVec. *)
EXTENDS BufferedVec

InsertOnly == {"append", "store"}
AppendErase == {"append", "erase"}
AddErase == {"add", "erase"}
StoreErase == {"store", "erase"}

Sound == {InsertOnly, AppendErase, AddErase}
Reusing == {StoreErase}
=============================================================================
