---------------------------- MODULE MCQ3Mailbox ----------------------------
(* Three calls after a message of somebody else; the SMU accepts or         *)
(* rejects, and one wait is cut to two polls.                               *)
EXTENDS Q3MailboxProofs

MCSmuStatus == {1, 252}
=============================================================================
