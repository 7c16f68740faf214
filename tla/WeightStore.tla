----------------------------- MODULE WeightStore -----------------------------
(***************************************************************************)
(* PinnedWeightStore of python/soinfer/offload/weight_store.py: one arena  *)
(* of fixed size into which matrices are copied one behind the other, and  *)
(* the handles by which their rows are found again.                        *)
(*                                                                         *)
(* The arena is a function from byte offsets to what was written there:    *)
(* byte j of row r of matrix m is <<m, r, j>>, and Unwritten is the        *)
(* content of torch.empty.                                                 *)
(***************************************************************************)
EXTENDS Integers, Sequences, FiniteSets

CONSTANT Unwritten

VARIABLES
  arena,         \* self.arena
  handles,       \* self._handles: name -> [offset, num_rows, row_nbytes]
  write_offset   \* self._write_offset

storeVars == <<arena, handles, write_offset>>

bytes_total == Cardinality(DOMAIN arena)

NoHandles == [name \in {} |-> <<>>]
Put(f, x, v) == [y \in DOMAIN f \cup {x} |-> IF y = x THEN v ELSE f[y]]

(* No store yet, and PinnedWeightStore(total_bytes). *)
NoStore == arena = NoHandles /\ handles = NoHandles /\ write_offset = 0

Allocate(total_bytes) ==
  /\ total_bytes > 0
  /\ arena' = [b \in 0 .. total_bytes - 1 |-> Unwritten]
  /\ UNCHANGED <<handles, write_offset>>

CanRegister(name, num_rows, row_nbytes) ==
  /\ name \notin DOMAIN handles
  /\ write_offset + num_rows * row_nbytes <= bytes_total

(* Mutant: the spans of neighbours share a byte. *)
overlapping(offset, nbytes) == offset + nbytes - 1
EndOffset(offset, nbytes) == offset + nbytes

(* copy_ of a [num_rows, row_nbytes] tensor into the next free span. *)
register(name, num_rows, row_nbytes) ==
  LET nbytes == num_rows * row_nbytes
  IN  /\ CanRegister(name, num_rows, row_nbytes)
      /\ arena' = [b \in DOMAIN arena |->
                     IF b \in write_offset .. write_offset + nbytes - 1
                     THEN <<name, (b - write_offset) \div row_nbytes,
                                  (b - write_offset) % row_nbytes>>
                     ELSE arena[b]]
      /\ handles' = Put(handles, name, [offset     |-> write_offset,
                                        num_rows   |-> num_rows,
                                        row_nbytes |-> row_nbytes])
      /\ write_offset' = EndOffset(write_offset, nbytes)

(* The views: the span reshaped, one row of it, a selection of its rows. *)
matrix_view(h) ==
  [r \in 0 .. h.num_rows - 1 |->
     [j \in 0 .. h.row_nbytes - 1 |-> arena[h.offset + r * h.row_nbytes + j]]]
row_view(h, row) ==
  [j \in 0 .. h.row_nbytes - 1 |-> arena[h.offset + row * h.row_nbytes + j]]
rows_view(h, rows) == [i \in DOMAIN rows |-> matrix_view(h)[rows[i]]]

-----------------------------------------------------------------------------
(* Every row of every registered matrix reads back as what was copied in,    *)
(* through each of the views and whatever was registered after it: spans     *)
(* neither overlap nor leave the arena, and the row arithmetic of the views  *)
(* (weight_store.py:87-109) agrees with the row-major layout register wrote  *)
(* (weight_store.py:77-81).                                                  *)
RowsIntact ==
  \A m \in DOMAIN handles :
    LET h == handles[m]
    IN  /\ h.offset + h.num_rows * h.row_nbytes <= write_offset
        /\ \A r \in 0 .. h.num_rows - 1 :
             /\ row_view(h, r) = [j \in 0 .. h.row_nbytes - 1 |-> <<m, r, j>>]
             /\ rows_view(h, <<r>>) = << row_view(h, r) >>
=============================================================================
