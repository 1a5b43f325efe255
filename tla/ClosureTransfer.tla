--------------------------- MODULE ClosureTransfer ---------------------------
(***************************************************************************)
(* validateTransferAgainstPlan: the files of a transfer against those of   *)
(* the plan, with the bytes counted in unsigned machine words.  Both the   *)
(* retention of a candidate and the disclosure of its public copy pass     *)
(* through it.                                                             *)
(***************************************************************************)
EXTENDS Integers, Sequences

CONSTANTS Word,      \* number of values of a machine word (2^64 in the code)
          MaxFiles   \* bound: files of a plan

VARIABLES limits,      \* ByteLimit of each planned file
          aggregate,   \* AggregateByteLimit of the plan and the request
          sent,        \* number of files in the transfer
          total,       \* running total
          files,       \* history: the files looked at so far
          sum,         \* history: how many bytes they really have
          transfer     \* what the function found

transferVars == <<limits, aggregate, sent, total, files, sum, transfer>>

Size == 0..(Word - 1)
Limit == 1..(Word - 1)

\* A file is what the plan has at its place (path and regular entry) or is not.
File == [size : Size, planned : BOOLEAN]

ASSUME TransferAssumption == Word \in Nat /\ Word > 1 /\ MaxFiles \in Nat \ {0}

\* A transfer of another length than the plan's is refused at once.
TransferInit ==
  /\ limits \in UNION {[1..n -> Limit] : n \in 1..MaxFiles}
  /\ aggregate \in Limit
  /\ sent \in 0..(MaxFiles + 1)
  /\ total = 0
  /\ files = <<>>
  /\ sum = 0
  /\ transfer = IF sent = Len(limits) THEN "open" ELSE "refused"

\* Faulty: the subtraction is trusted not to wrap.
WithinUnchecked(f) ==
  /\ f.planned
  /\ f.size <= limits[Len(files) + 1]
  /\ total <= (aggregate - f.size) % Word

\* The file is the planned one and fits its own limit and what is left of the
\* aggregate one.
Within(f) ==
  /\ f.planned
  /\ f.size <= limits[Len(files) + 1]
  /\ f.size <= aggregate
  /\ total <= (aggregate - f.size) % Word

CheckFile(f) ==
  /\ transfer = "open" /\ Len(files) < sent
  /\ files' = Append(files, f)
  /\ sum' = sum + f.size
  /\ IF Within(f)
     THEN total' = (total + f.size) % Word /\ UNCHANGED transfer
     ELSE transfer' = "refused" /\ UNCHANGED total
  /\ UNCHANGED <<limits, aggregate, sent>>

\* The digest of the files is the one the request names, or it is not.
CheckDigest(matches) ==
  /\ transfer = "open" /\ Len(files) = sent
  /\ transfer' = IF matches THEN "accepted" ELSE "mismatch"
  /\ UNCHANGED <<limits, aggregate, sent, total, files, sum>>

TransferNext == \/ \E f \in File : CheckFile(f)
                \/ \E matches \in BOOLEAN : CheckDigest(matches)

TransferSpec == TransferInit /\ [][TransferNext]_transferVars

-----------------------------------------------------------------------------
TransferTypeOK ==
  /\ limits \in Seq(Limit) /\ aggregate \in Limit
  /\ sent \in Nat
  /\ total \in Size
  /\ files \in Seq(File) /\ Len(files) <= Len(limits)
  /\ sum \in Nat
  /\ transfer \in {"open", "refused", "accepted", "mismatch"}

\* However sizes and limits lie to the machine word, a transfer is refused exactly
\* when it really breaks the plan: another number of files, a file that is not
\* planned, one over its own limit, or more bytes in all than the aggregate limit.
TransferExact ==
  transfer = "refused" <=>
    \/ sent # Len(limits)
    \/ sum > aggregate
    \/ \E i \in 1..Len(files) : ~files[i].planned \/ files[i].size > limits[i]
=============================================================================
