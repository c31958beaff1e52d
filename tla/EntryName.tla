----------------------------- MODULE EntryName ------------------------------
(***************************************************************************)
(* The conversion of one directory entry's name to a descriptor:           *)
(* get_entry_info and parse_int_bytes of src/src/iterfds/dirfd.rs, one     *)
(* action per byte.  FdIter represents an entry by what is found here,     *)
(* with NotFd for None.                                                    *)
(***************************************************************************)
EXTENDS Integers, Sequences, FiniteSetsExt

CONSTANTS
  IntMax,      (* libc::c_int::MAX                                         *)
  NameLen,     (* the size of d_name                                       *)
  Nul, Other,  (* the byte 0, and a byte that is neither 0 nor a digit     *)
  None         (* Option::None                                             *)

(* A digit is represented by its value.                                    *)
Digit == 0..9

ASSUME EntryNameAssumption ==
  /\ IntMax \in Nat
  /\ NameLen \in Nat
  /\ Nul # Other /\ Nul \notin Digit /\ Other \notin Digit
  /\ None \notin 0..IntMax

VARIABLES
  d_name,         (* the bytes of the entry                                *)
  at,             (* how many of them have been consumed                   *)
  num, seen_any,  (* the locals of parse_int_bytes                         *)
  parsing,        (* FALSE when it has returned                            *)
  parsed          (* what it returned                                      *)

nameVars == <<d_name, at, num, seen_any, parsing, parsed>>

Bytes == Digit \cup {Nul, Other}

(* The array is as long as it is: a shorter one stands for the bytes up to *)
(* the point where the conversion can no longer look.                      *)
Names == UNION {[1..n -> Bytes] : n \in 0..NameLen}

(* take_while(|c| **c != 0)                                                *)
AtEnd == \A i \in DOMAIN d_name : i = at + 1 => d_name[i] = Nul

(* checked_mul(10)?.checked_add(digit)?                                    *)
Push_Wrapping(n) == (n * 10 + d_name[at + 1]) % (IntMax + 1)

Push(n) ==
  IF n * 10 > IntMax \/ n * 10 + d_name[at + 1] > IntMax
  THEN None
  ELSE n * 10 + d_name[at + 1]

Return(r) ==
  /\ parsing' = FALSE
  /\ parsed' = r
  /\ UNCHANGED <<d_name, at, num, seen_any>>

(* One iteration of the loop.                                              *)
Consume ==
  /\ parsing /\ ~AtEnd
  /\ \/ /\ d_name[at + 1] \in Digit /\ Push(num) # None
        /\ num' = Push(num)
        /\ seen_any' = TRUE
        /\ at' = at + 1
        /\ UNCHANGED <<d_name, parsing, parsed>>
     \/ d_name[at + 1] \in Digit /\ Push(num) = None /\ Return(None)
     \/ d_name[at + 1] \notin Digit /\ Return(None)

(* After the loop.                                                         *)
Outcome_Always == num

Outcome == IF seen_any THEN num ELSE None

Finish ==
  /\ parsing /\ AtEnd
  /\ Return(Outcome)

NameNext == Consume \/ Finish

NameInit ==
  /\ d_name \in Names
  /\ at = 0 /\ num = 0 /\ seen_any = FALSE
  /\ parsing = TRUE /\ parsed = None

NameSpec == NameInit /\ [][NameNext]_nameVars

-----------------------------------------------------------------------------
(* Properties.                                                             *)

(* The bytes before the first Nul.                                         *)
TextLen == Min({i - 1 : i \in {j \in DOMAIN d_name : d_name[j] = Nul}}
                 \cup {Len(d_name)})

Text == SubSeq(d_name, 1, TextLen)

(* The value of a numeral by the weight of its digits.                     *)
Weight[k \in 0..NameLen] == IF k = 0 THEN 1 ELSE 10 * Weight[k - 1]

WeightedSum(s) ==
  LET sum[i \in 0..Len(s)] ==
        IF i = 0 THEN 0 ELSE sum[i - 1] + s[i] * Weight[Len(s) - i]
  IN  sum

Value(s) == WeightedSum(s)[Len(s)]

IsNumeral(s) == s # <<>> /\ \A i \in DOMAIN s : s[i] \in Digit

(* parse_int_bytes finds the value of a numeral that fits a c_int, and     *)
(* rejects everything else: the empty name, "." and "..", a sign, and a    *)
(* numeral too large, at whichever digit or operation it overflows.        *)
ParsesNumeral ==
  ~parsing =>
    parsed = IF IsNumeral(Text) /\ Value(Text) <= IntMax
             THEN Value(Text) ELSE None

(* The name the kernel gives to a descriptor.                              *)
DecimalName[n \in 0..IntMax] ==
  IF n < 10 THEN <<n>> ELSE Append(DecimalName[n \div 10], n % 10)

(* A name written without leading zeros is taken for no other descriptor   *)
(* than the one the kernel gives that name to, and is never missed.        *)
NameOfDescriptor ==
  ~parsing =>
    /\ parsed # None /\ (Text[1] # 0 \/ Len(Text) = 1) =>
         DecimalName[parsed] = Text
    /\ parsed = None => \A fd \in 0..IntMax : DecimalName[fd] # Text

=============================================================================
