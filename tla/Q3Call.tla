------------------------------- MODULE Q3Call -------------------------------
(***************************************************************************)
(* What one caller may rely on when it sends messages to the SMU through   *)
(* SendQ3, whatever the mailbox registers do underneath: a message is      *)
(* executed at most once and in the order of posting, a call that returns  *)
(* EFI_SUCCESS carries the status the SMU gave to that very message, and a *)
(* call that returns EFI_TIMEOUT says nothing: its message may have been   *)
(* executed, may be executed later, or may never have been posted.         *)
(*                                                                         *)
(* Message 0 is one that somebody else left in the mailbox before the      *)
(* driver's first call.  Q3Mailbox is shown to implement this module.      *)
(***************************************************************************)
EXTENDS Integers

CONSTANTS MaxCalls,   \* how many calls the driver makes
          SmuStatus   \* the done statuses the SMU gives

OK == 1               \* SMU_RETURN_OK: the only status that means "executed as asked"

ASSUME CallAssumption == MaxCalls \in Nat /\ SmuStatus \subseteq Nat \ {0}

Call == 1..MaxCalls
Message == 0..MaxCalls

(* What ends up in the argument slot: `by' wrote it for message `call'. *)
Slot == [by : {"nobody", "host", "smu"}, call : Message]
Empty == [by |-> "nobody", call |-> 0]
Request(m) == [by |-> "host", call |-> m]
Response(m) == [by |-> "smu", call |-> m]

Outcome == [result : {"none", "EFI_SUCCESS", "EFI_TIMEOUT"},
            status : SmuStatus \union {0},
            value  : Slot]
NoOutcome == [result |-> "none", status |-> 0, value |-> Empty]

VARIABLES posted,   \* the messages rung into the mailbox
          ans,      \* ans[m]: the status the SMU gave to message m, 0 while it gave none
          ret       \* ret[m]: what the caller of message m was told

vars == <<posted, ans, ret>>

TypeOK ==
  /\ posted \subseteq Message
  /\ ans \in [Message -> SmuStatus \union {0}]
  /\ ret \in [Call -> Outcome]

Init ==
  /\ posted \in {{}, {0}}
  /\ ans = [m \in Message |-> 0]
  /\ ret = [m \in Call |-> NoOutcome]

(* Message m goes in only when every earlier one has been executed. *)
Post(m) ==
  /\ ret[m] = NoOutcome
  /\ \A p \in posted : p < m /\ ans[p] # 0
  /\ posted' = posted \union {m}
  /\ UNCHANGED <<ans, ret>>

Execute(m, s) ==
  /\ m \in posted
  /\ ans[m] = 0
  /\ ans' = [ans EXCEPT ![m] = s]
  /\ UNCHANGED <<posted, ret>>

Answer(m) ==
  /\ ret[m] = NoOutcome
  /\ m \in posted
  /\ ans[m] # 0
  /\ ret' = [ret EXCEPT ![m] = [result |-> "EFI_SUCCESS", status |-> ans[m], value |-> Empty]]
  /\ UNCHANGED <<posted, ans>>

(* The response value: the SMU's own if it accepted the message, and the   *)
(* request the caller had put in the slot if it did not.                   *)
ReadValue(m) ==
  /\ ret[m].result = "EFI_SUCCESS"
  /\ ret' = [ret EXCEPT ![m].value = IF ans[m] = OK THEN Response(m) ELSE Request(m)]
  /\ UNCHANGED <<posted, ans>>

GiveUp(m, s) ==
  /\ ret[m] = NoOutcome
  /\ ret' = [ret EXCEPT ![m] = [result |-> "EFI_TIMEOUT", status |-> s, value |-> Empty]]
  /\ UNCHANGED <<posted, ans>>

Next ==
  \/ \E m \in Call : Post(m) \/ Answer(m) \/ ReadValue(m)
  \/ \E m \in Message, s \in SmuStatus : Execute(m, s)
  \/ \E m \in Call, s \in SmuStatus \union {0} : GiveUp(m, s)

Spec == Init /\ [][Next]_vars
=============================================================================
