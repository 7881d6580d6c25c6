------------------------------ MODULE MCTaskQueue ------------------------------
\* Model-checking instances of TaskQueue.
EXTENDS TaskQueue
================================================================================
