---------------------------- MODULE RentSchedule ----------------------------
(***************************************************************************)
(* The rent_schedule contract: a deal's instalments, which are paid in     *)
(* part or in full, marked overdue, or waived.  The contract keeps         *)
(* accounts only.  Left out: events, transaction ids, the reason of a      *)
(* waiver, due dates and paid_at, which no entry point looks at.           *)
(*                                                                         *)
(* create_schedule checks nothing about the instalments it stores: any of  *)
(* them may share a number, be due nothing, be paid in part, in full or    *)
(* beyond what is due, and have any status.  What is said about payments   *)
(* and waivers is therefore said relative to opening, a history variable.  *)
(***************************************************************************)
EXTENDS Parties

CONSTANTS
    LeaseDeals,     \* deal ids
    ScheduleOperator, \* the operator init stores
    Numbers,        \* instalment numbers
    Dues,           \* what a new instalment says is due
    PaidBefore,     \* what a new instalment says is paid of it
    MaxInstalments  \* bound on the length of a schedule

Statuses == {"Pending", "Paid", "Overdue", "Waived"}

Instalments == [number : Numbers, due : Int, paid : Int, status : Statuses]

\* What callers pass.
NewSchedules == UNION {[1..n -> [number : Numbers, due : Dues, paid : PaidBefore,
                                 status : Statuses]] : n \in 0..MaxInstalments}

Waivers == [amount : Int, at : Nat]

ASSUME ScheduleAssumption ==
    /\ Numbers \subseteq Nat /\ MaxInstalments \in Nat /\ None \notin Waivers
    /\ Dues \subseteq Int /\ PaidBefore \subseteq Int

VARIABLES
    schedPaused,
    schedule,       \* Schedule by deal
    waiver,         \* Waiver by deal and number: the amount waived, and when
    opening         \* history: the schedule as it was created

schedVars == <<schedPaused, schedule, waiver, opening>>

SchedInit ==
    /\ schedPaused = FALSE
    /\ schedule = [d \in LeaseDeals |-> None] /\ opening = schedule
    /\ waiver = [d \in LeaseDeals |-> [n \in Numbers |-> None]]

-----------------------------------------------------------------------------
ByScheduler(by) == by = Admin \/ by = ScheduleOperator

\* instalment_remaining
Remaining(inst) == inst.due - inst.paid

\* The first instalment of that number: one after it is never found.
Position(d, number) ==
    CHOOSE i \in DOMAIN schedule[d] :
        /\ schedule[d][i].number = number
        /\ \A j \in DOMAIN schedule[d] : schedule[d][j].number = number => i <= j

Found(d, number) ==
    schedule[d] # None /\ \E i \in DOMAIN schedule[d] : schedule[d][i].number = number

Closed(inst) == inst.status \in {"Paid", "Waived"}

\* Also while paused, and of any instalments.
CreateSchedule(by, d, instalments) ==
    /\ ByScheduler(by)
    /\ schedule[d] = None
    /\ schedule' = [schedule EXCEPT ![d] = instalments]
    /\ opening' = [opening EXCEPT ![d] = instalments]
    /\ UNCHANGED <<schedPaused, waiver>>

\* By anybody who signs for himself.
RecordPayment(d, number, amount) ==
    /\ ~schedPaused
    /\ Found(d, number)
    /\ LET i == Position(d, number)
           inst == schedule[d][i]
       IN
       /\ ~Closed(inst)
       /\ amount <= Remaining(inst)
       /\ schedule' = [schedule EXCEPT ![d][i] =
              [inst EXCEPT !.paid = inst.paid + amount,
                           !.status = IF amount = Remaining(inst) THEN "Paid" ELSE inst.status]]
    /\ UNCHANGED <<schedPaused, waiver, opening>>

\* The caller's word is taken for it that the instalment is overdue.
MarkOverdue(by, d, number) ==
    /\ ~schedPaused
    /\ ByScheduler(by)
    /\ Found(d, number)
    /\ LET i == Position(d, number)
           inst == schedule[d][i]
       IN  /\ ~Closed(inst) /\ Remaining(inst) > 0
           /\ schedule' = [schedule EXCEPT ![d][i] = [inst EXCEPT !.status = "Overdue"]]
    /\ UNCHANGED <<schedPaused, waiver, opening>>

\* By the admin, also while paused.
WaiveInstalment(by, d, number) ==
    /\ by = Admin
    /\ Found(d, number)
    /\ LET i == Position(d, number)
           inst == schedule[d][i]
       IN  /\ ~Closed(inst)
           /\ schedule' = [schedule EXCEPT ![d][i] = [inst EXCEPT !.status = "Waived"]]
           /\ waiver' = [waiver EXCEPT ![d][number] = [amount |-> Remaining(inst), at |-> now]]
    /\ UNCHANGED <<schedPaused, opening>>

SetSchedPaused(by, flag) ==
    /\ by = Admin
    /\ schedPaused' = flag
    /\ UNCHANGED <<schedule, waiver, opening>>

SchedNext ==
    \/ Tick /\ UNCHANGED schedVars
    \/ /\ \/ \E d \in LeaseDeals, number \in Numbers, amount \in Amounts :
               RecordPayment(d, number, amount)
          \/ \E by \in Callers \cup {ScheduleOperator} :
               \/ \E d \in LeaseDeals :
                    \/ \E instalments \in NewSchedules : CreateSchedule(by, d, instalments)
                    \/ \E number \in Numbers :
                         MarkOverdue(by, d, number) \/ WaiveInstalment(by, d, number)
               \/ \E flag \in BOOLEAN : SetSchedPaused(by, flag)
       /\ UNCHANGED now

SchedSpec == now = 0 /\ SchedInit /\ [][SchedNext]_<<now, schedVars>>

-----------------------------------------------------------------------------
\* Entries have the types the getters read.
SchedTypeOK ==
    /\ schedPaused \in BOOLEAN
    /\ \A d \in LeaseDeals :
         /\ {schedule[d], opening[d]} \subseteq Seq(Instalments) \cup {None}
         /\ \A n \in Numbers : waiver[d][n] \in Waivers \cup {None}

\* Whatever order partial payments, overdue marks and waivers come in, and whatever
\* create_schedule stored: an instalment it stored as Paid or Waived stays what it was;
\* of any other, what is paid only grows, up to what is due; it becomes Paid by being
\* paid in full, and is Paid as soon as a payment fills it up; and it becomes Waived with
\* a waiver of what was unpaid and still is.  So of an instalment that starts open and
\* unpaid, every unit is paid, waived or still open.
InstalmentsAccounted ==
    \A d \in LeaseDeals : schedule[d] # None =>
        /\ DOMAIN schedule[d] = DOMAIN opening[d]
        /\ \A i \in DOMAIN schedule[d] :
             LET inst  == schedule[d][i]
                 first == opening[d][i]
             IN  /\ inst.number = first.number /\ inst.due = first.due
                 /\ Closed(first) => inst = first
                 /\ inst.paid # first.paid =>
                      /\ first.paid < inst.paid /\ inst.paid <= inst.due
                      /\ inst.paid = inst.due => inst.status = "Paid"
                 /\ inst.status = "Paid" /\ ~Closed(first) => inst.paid = inst.due
                 /\ inst.status = "Waived" /\ ~Closed(first) =>
                      /\ waiver[d][inst.number] # None
                      /\ waiver[d][inst.number].amount = Remaining(inst)
=============================================================================
