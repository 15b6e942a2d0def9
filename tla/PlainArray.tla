----------------------------- MODULE PlainArray -----------------------------
(***************************************************************************)
(* What the virtual arrays of the JPEG library promise their callers: an   *)
(* array of rows, opened a strip at a time, as if it were all in memory.   *)
(* Rows get defined from the first on, by the first writer that opens      *)
(* them; in a zeroed array a reader may look ahead of it and sees zeros.   *)
(***************************************************************************)
EXTENDS Integers

CONSTANTS Rows, MaxAccess, PreZero, Values, Zero

VARIABLES
  ready,    (* the array has been given its memory                         *)
  array,    (* the rows that are defined                                   *)
  strip,    (* the rows that are open, and whether they may be written     *)
  refused   (* a caller asked for what it may not have                     *)

avars == <<ready, array, strip, refused>>

defined == DOMAIN array
Strip(start, end) == start .. end - 1
Allowed(start, end, writable) ==
  /\ ready /\ end <= Rows /\ end - start <= MaxAccess
  /\ writable => (start = 0 \/ start - 1 \in defined)
  /\ ~PreZero /\ ~writable => Strip(start, end) \subseteq defined

(* Of rows opened for the first time to be written nothing is known,       *)
(* unless they are zeroed. *)
Opened(start, end, writable) ==
  LET now == IF writable THEN defined \cup Strip(start, end) ELSE defined IN
  {a \in [now -> Values] :
     /\ \A r \in defined : a[r] = array[r]
     /\ PreZero => \A r \in now \ defined : a[r] = Zero}

GetReady == ~ready /\ ready' = TRUE /\ UNCHANGED <<array, strip, refused>>

Access(start, end, writable) ==
  /\ ~refused /\ Allowed(start, end, writable)
  /\ array' \in Opened(start, end, writable)
  /\ strip' = [rows |-> [r \in Strip(start, end) |->
                           IF r \in DOMAIN array' THEN array'[r] ELSE Zero],
               writable |-> writable]
  /\ UNCHANGED <<ready, refused>>

Refuse(start, end, writable) ==
  /\ ~refused /\ ~Allowed(start, end, writable)
  /\ refused' = TRUE
  /\ UNCHANGED <<ready, array, strip>>

Write(r, v) ==
  /\ ~refused /\ strip.writable /\ r \in DOMAIN strip.rows
  /\ array' = [array EXCEPT ![r] = v]
  /\ strip' = [strip EXCEPT !.rows[r] = v]
  /\ UNCHANGED <<ready, refused>>

AInit ==
  /\ ready = FALSE /\ array = [r \in {} |-> Zero] /\ refused = FALSE
  /\ strip = [rows |-> [r \in {} |-> Zero], writable |-> FALSE]
ANext ==
  \/ GetReady
  \/ \E start \in 0 .. Rows, end \in 0 .. Rows + 1, writable \in BOOLEAN :
       start < end /\ (Access(start, end, writable) \/ Refuse(start, end, writable))
  \/ \E r \in 0 .. Rows - 1, v \in Values : Write(r, v)
ASpec == AInit /\ [][ANext]_avars
=============================================================================
