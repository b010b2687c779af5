---------------------------- MODULE MCShellText ----------------------------
(* An instance of ShellText for TLC: a character of each kind.             *)
EXTENDS ShellText

MCAlphabet == {"0", "1", "a", "x", "o", "-", ":", ";", " ", "\"", "'", "\\", "\n"}
MCFields == LongLongs
=============================================================================
