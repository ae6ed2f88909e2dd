---------------------------- MODULE MCReplServer ----------------------------
(***************************************************************************)
(* ReplServer for TLC.  MaxRequestBytes is 2, so the three-byte line is    *)
(* the oversized one; a text may hold any byte, because a wrong cut can    *)
(* put a newline inside it.                                                *)
(***************************************************************************)
EXTENDS ReplServer

MCByte == {"a", "b", "\n", "\r"}

\* Lines that fit, with both terminators.
CleanLines == { <<"a", "\n">>, <<"b", "\r", "\n">> }

\* Those, a blank line and an oversized one.
AnyLines == CleanLines \cup { <<"\n">>, <<"a", "b", "b", "\n">> }

\* A line and the blank line of a terminal's CR LF.
BlankLines == { <<"a", "\n">>, <<"\r", "\n">> }

=============================================================================
