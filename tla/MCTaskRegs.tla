------------------------------ MODULE MCTaskRegs ------------------------------
\* A model-checking instance of TaskRegs: two users, a mailer, two records.
EXTENDS TaskRegs

CONSTANTS joe, ann, mail
==============================================================================
