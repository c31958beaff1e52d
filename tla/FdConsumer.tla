----------------------------- MODULE FdConsumer -----------------------------
(***************************************************************************)
(* Code that goes through a whole FdIter and draws conclusions from it:    *)
(* size_hint() before and after every next(), as test_size_hint_generic of *)
(* src/src/iterfds/mod.rs does, and FdIter::min and ::max, which trust the *)
(* order of the iteration.  The rest of the program keeps running.         *)
(***************************************************************************)
EXTENDS FdIter

VARIABLES
  upc,                  (* where the consumer is                           *)
  i,                    (* how many descriptors it was given               *)
  init_low, init_high,  (* the tightest bounds on their number so far      *)
  first, last           (* the first and the last of them                  *)

boundVars == <<init_low, init_high>>
consumerVars == <<upc, i, boundVars, first, last>>
conVars == <<tableVars, iterVars, consumerVars>>

MakeIter ==
  /\ upc = "start"
  /\ \E m \in MinFds, poss, skip, fs \in BOOLEAN : IterFrom(m, poss, skip, fs)
  /\ upc' = "hint"
  /\ UNCHANGED <<i, boundVars, first, last>>

FirstHint ==
  /\ upc = "hint" /\ itpc = "idle"
  /\ init_low' = HintLow
  /\ init_high' = HintHigh
  /\ upc' = "next"
  /\ UNCHANGED <<tableVars, iterVars, i, first, last>>

AskFd ==
  /\ upc = "next"
  /\ CallNext
  /\ upc' = "wait"
  /\ UNCHANGED <<i, boundVars, first, last>>

(* FdIter::min is the first next(), FdIter::max is last().                 *)
Extremes(fd) ==
  /\ first' = IF i = 0 THEN fd ELSE first
  /\ last' = fd

(* The bounds are made comparable to the first ones, and kept if tighter.  *)
TakeFd ==
  /\ upc = "wait" /\ itpc = "idle" /\ item # None
  /\ init_low' = IF HintLow + i + 1 > init_low THEN HintLow + i + 1 ELSE init_low
  /\ init_high' = IF HintHigh + i + 1 < init_high THEN HintHigh + i + 1 ELSE init_high
  /\ i' = i + 1
  /\ Extremes(item)
  /\ upc' = "next"
  /\ UNCHANGED <<tableVars, iterVars>>

TakeNone ==
  /\ upc = "wait" /\ itpc = "idle" /\ item = None
  /\ upc' = "end"
  /\ UNCHANGED <<tableVars, iterVars, i, boundVars, first, last>>

(* The iterator is dropped.                                                *)
Discard ==
  /\ upc = "end"
  /\ Drop
  /\ upc' = "gone"
  /\ UNCHANGED <<i, boundVars, first, last>>

ConNext ==
  \/ MakeIter \/ FirstHint \/ AskFd \/ TakeFd \/ TakeNone \/ Discard
  \/ (IterStep \/ Others) /\ UNCHANGED consumerVars

ConInit ==
  /\ TableInit /\ IterInit
  /\ upc = "start" /\ i = 0
  /\ init_low = 0 /\ init_high = 0
  /\ first = None /\ last = None

(* The consumer may stop calling; a call in progress goes on.              *)
ConSpec ==
  ConInit /\ [][ConNext]_conVars /\ WF_conVars(IterStep /\ UNCHANGED consumerVars)

-----------------------------------------------------------------------------
(* Properties.                                                             *)

(* The assertions of test_size_hint_generic, with other threads opening    *)
(* and closing descriptors all the time: no bound that size_hint() gave at *)
(* any point of the iteration turns out wrong, also when the directory     *)
(* fails half-way and the maxfd loop takes over.                           *)
CountWithinHints ==
  /\ upc \in {"next", "end"} => HintLow <= HintHigh
  /\ upc = "end" =>
       /\ HintLow = 0
       /\ init_low <= i /\ i <= init_high

(* FdIter::min takes the first descriptor and FdIter::max the last one:    *)
(* they are the least and the greatest of all that were open all the time, *)
(* unless the method could miss it.                                        *)
MinMaxRight ==
  upc = "end" =>
    \A f \in steady : f >= dir_minfd =>
      Excused(f) \/ (i > 0 /\ first <= f /\ f <= last)

=============================================================================
