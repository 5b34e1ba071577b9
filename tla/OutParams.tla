----------------------------- MODULE OutParams ------------------------------
(***************************************************************************)
(* The OUT parameters of a CALL statement (cubrid/stmt.go): PrepareCall,   *)
(* RegisterOutParam, the modes sent with EXECUTE, the value row pulled     *)
(* after it and OutValues.                                                 *)
(*                                                                         *)
(* Marker i of a stored procedure is given a mode, and the procedure sends *)
(* back for it what it was given (IN), a value of its own (OUT) or a value *)
(* made from both (INOUT); the value row is a slot for the statement and   *)
(* one value for each marker.  The columns that PREPARE described may be   *)
(* fewer.  A CALL of a method has no modes and the row PREPARE described.  *)
(***************************************************************************)
EXTENDS Integers, Sequences, FiniteSets

CONSTANT MaxParams  \* bound on the markers of the statement

OutParamsConstants == MaxParams \in Nat

VARIABLES
  sp,          \* the command type: CALL_SP, or CALL
  paramCount,  \* Stmt.paramCount
  described,   \* the number of columns in the reply to PREPARE
  outParams,   \* the markers registered with RegisterOutParam
  late,        \* those registered since the last execution
  runs,        \* the number of executions so far
  fetching,    \* the value row on the server, while the FETCH is under way
  outRow       \* Stmt.outRow; <<>>: nil

vars == <<sp, paramCount, described, outParams, late, runs, fetching, outRow>>

MaxRuns == 2
Null == <<"null", 0, 0>>
Value(mode, i) == <<mode, i, runs>>
Slot == <<"slot", 0, 0>>

Init ==
  /\ sp \in BOOLEAN /\ paramCount \in 0 .. MaxParams /\ described \in 0 .. MaxParams + 1
  /\ outParams = {} /\ late = {} /\ runs = 0 /\ fetching = <<>> /\ outRow = <<>>

\* Mutant of Width: the row is read with the columns PREPARE described.
WidthAsDescribed == described

\* The columns of the value row: a slot and the markers for CALL_SP.
Width == IF sp THEN paramCount + 1 ELSE described

RegisterOutParam(i) ==
  /\ fetching = <<>>
  /\ i \in 1 .. paramCount
  /\ outParams' = outParams \cup {i}
  /\ late' = late \cup ({i} \ outParams)
  /\ UNCHANGED <<sp, paramCount, described, runs, fetching, outRow>>

Mode(i, bound) == IF i \notin outParams THEN "IN" ELSE IF i \in bound THEN "INOUT" ELSE "OUT"

\* execute with the markers of bound given a value and the others nil: the server
\* runs the procedure, and its row is there for a FETCH unless it has none.
Execute(bound) ==
  /\ fetching = <<>> /\ runs < MaxRuns
  /\ outRow' = <<>> /\ late' = {} /\ runs' = runs + 1
  /\ fetching' \in
       {<<>>, IF sp THEN <<Slot>> \o [i \in 1 .. paramCount |-> Value(Mode(i, bound), i)]
              ELSE [i \in 1 .. described |-> Value("method", i)]}
  /\ UNCHANGED <<sp, paramCount, described, outParams>>

\* The FETCH of the value row: as many values as there are columns, which fails
\* if there are not as many in the row.
FetchRow ==
  /\ fetching # <<>> /\ Width <= Len(fetching)
  /\ outRow' = SubSeq(fetching, 1, Width)
  /\ fetching' = <<>>
  /\ UNCHANGED <<sp, paramCount, described, outParams, late, runs>>

FetchFails ==
  /\ fetching # <<>>
  /\ fetching' = <<>>
  /\ UNCHANGED <<sp, paramCount, described, outParams, late, runs, outRow>>

Next ==
  \/ \E i \in 0 .. MaxParams + 1 : RegisterOutParam(i)
  \/ \E bound \in SUBSET (1 .. paramCount) : Execute(bound)
  \/ FetchRow \/ FetchFails

Spec == Init /\ [][Next]_vars

\* The markers registered, as the loop of OutValues meets them.
Registered ==
  LET upTo[i \in 0 .. paramCount] ==
        IF i = 0 THEN <<>>
        ELSE IF i \in outParams THEN Append(upTo[i - 1], i) ELSE upTo[i - 1]
  IN upTo[paramCount]
AtMarker(i) == i
AtColumn(i) == i + 1
OutValues ==
  IF outRow = <<>> THEN <<>>
  ELSE [k \in DOMAIN Registered |->
          LET c == AtColumn(Registered[k]) IN IF c <= Len(outRow) THEN outRow[c] ELSE Null]

-----------------------------------------------------------------------------
(* Properties                                                              *)

\* OutValuesOwn: after a stored procedure has returned its row, OutValues has one
\* value for each registered marker, that of this marker from the last execution
\* and no NULL in its place, though PREPARE described fewer columns; a marker that
\* was registered when the statement ran was sent as OUT or INOUT (prepare's
\* padding, paramModes, OutValues).
OutValuesOwn ==
  sp /\ outRow # <<>> =>
    /\ Len(OutValues) = Cardinality(outParams)
    /\ \A k \in DOMAIN OutValues :
         /\ OutValues[k] \in {<<mode, Registered[k], runs - 1>> : mode \in {"IN", "OUT", "INOUT"}}
         /\ (OutValues[k][1] = "IN") = (Registered[k] \in late)
=============================================================================
