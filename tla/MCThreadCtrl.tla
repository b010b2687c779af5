---------------------------- MODULE MCThreadCtrl ----------------------------
(* Instances of ThreadCtrl for TLC. *)
EXTENDS ThreadCtrl

\* The commands of thread 0, which may stop any thread while all record it as
\* their parent.
MCCommands ==
  {Bubble}
  \cup [op : {"init"}, act : {0}, obj : {0}]
  \cup [op : {"slp", "kill"}, act : {0}, obj : {0, 1}]
  \cup [op : {"wake"}, act : {0}, obj : {1, 2}]

\* Every command any thread can issue.
AllCommands ==
  {Bubble}
  \cup [op : {"init"}, act : Threads, obj : {0}]
  \cup [op : {"slp", "kill", "wake"}, act : Threads, obj : Threads]
=============================================================================
