------------------------------- MODULE ParamCgi -------------------------------
(***************************************************************************)
(* The parameter store of the web interface (httpd-cgi/param.c): a request *)
(* to update a group rewrites the group's file once for each token of the  *)
(* request, through <file>.new, remove and rename.                         *)
(*   configs_update, WriteParamStr                                         *)
(*                                                                         *)
(* The file is the sequence of the values of its parameters; a token is    *)
(* the lines that begin with its name, and a value.  No line does when the *)
(* file has no such parameter (the first token is the name of the group),  *)
(* and several do when the name is cut short.  Each request is a process   *)
(* of its own that can be killed at any point: the board is rebooted from  *)
(* the same interface (restart.c).  The calls so far have then been made,  *)
(* but what stdio still held of <file>.new is gone.  One update runs at a  *)
(* time: nothing in this code would keep two of them apart.  Listing the   *)
(* parameters changes nothing and is left out.                             *)
(***************************************************************************)
EXTENDS Integers, Sequences

CONSTANTS
    Lines,      \* how many parameters the file has
    Values,     \* their values
    Requests,   \* the requests: sequences of tokens
    Missing     \* there is no such file

Tokens == [lines : SUBSET (1 .. Lines), value : Values]
Files == [1 .. Lines -> Values]

ASSUME StoreAssumption ==
    /\ Lines \in Nat
    /\ Requests \subseteq Seq(Tokens) \ {<<>>}
    /\ Missing \notin Files

VARIABLES
    conf,       \* the file
    new,        \* <file>.new
    pc,         \* "idle", "open", "copy", "remove", "rename"
    todo,       \* the tokens of the request that are still to be written
    src,        \* the file WriteParamStr reads, which stays as it was opened
    base, asked \* the file when the request came, and its tokens

request == <<base, asked>>
vars == <<conf, new, pc, todo, src, base, asked>>

Init ==
    /\ conf \in Files /\ new = Missing
    /\ pc = "idle" /\ todo = <<>> /\ src = <<>>
    /\ base = conf /\ asked = <<>>

\* configs_update gets a request.
Update(r) ==
    /\ pc = "idle"
    /\ pc' = "open" /\ todo' = r
    /\ base' = conf /\ asked' = r
    /\ UNCHANGED <<conf, new, src>>

\* WriteParamStr opens both files: .new is there and empty whatever comes next.
OpensKeeping == src' = conf /\ new' = IF new = Missing THEN <<>> ELSE new
Opens == src' = conf /\ new' = <<>>
OpenFiles ==
    /\ pc = "open"
    /\ Opens
    /\ IF conf = Missing
       THEN pc' = "idle" /\ todo' = <<>>
       ELSE pc' = "copy" /\ UNCHANGED todo
    /\ UNCHANGED <<conf, request>>

\* A turn of the loop copies a line, or writes the parameter in its place.
LineOf(t, k) == IF k \in t.lines THEN t.value ELSE src[k]
CopyLine ==
    /\ pc = "copy" /\ Len(new) < Len(src)
    /\ new' = Append(new, LineOf(Head(todo), Len(new) + 1))
    /\ UNCHANGED <<conf, pc, todo, src, request>>

\* End of file: both are closed, and the old one is removed.
CopiedMost == Len(new) >= Len(src) - 1
Copied == Len(new) = Len(src)
RemoveOld ==
    /\ pc = "copy" /\ Copied
    /\ conf' = Missing /\ pc' = "rename"
    /\ UNCHANGED <<new, todo, src, request>>

\* rename and sync; configs_update goes on with the next token.
RenameNew ==
    /\ pc = "rename"
    /\ conf' = new /\ new' = Missing
    /\ todo' = Tail(todo)
    /\ pc' = IF Len(todo) = 1 THEN "idle" ELSE "open"
    /\ UNCHANGED <<src, request>>

\* The process is killed.
Kill ==
    /\ pc # "idle"
    /\ pc' = "idle" /\ todo' = <<>>
    /\ IF pc = "copy"
       THEN \E k \in 0 .. Len(new) : new' = SubSeq(new, 1, k)
       ELSE UNCHANGED new
    /\ asked' = SubSeq(asked, 1, Len(asked) - Len(todo))
    /\ UNCHANGED <<conf, src, base>>

Next ==
    \/ \E r \in Requests : Update(r)
    \/ OpenFiles \/ CopyLine \/ RemoveOld \/ RenameNew \/ Kill
Spec == Init /\ [][Next]_vars

-----------------------------------------------------------------------------
(* Properties.                                                              *)

\* The file after a token, and after the first d tokens of the request.
Written(f, t) == [k \in 1 .. Lines |-> IF k \in t.lines THEN t.value ELSE f[k]]
WrittenUpTo(d) ==
    LET file[k \in 0 .. d] == IF k = 0 THEN base ELSE Written(file[k - 1], asked[k])
    IN  file[d]

\* How many tokens of the request are done.
Done == Len(asked) - Len(todo)

\* Wherever the writer is killed, the file is whole or it is missing: it is the file
\* the request found with the tokens written so far, each in turn and each entirely.
\* WriteParamStr must not let a half copied file take its place.
WholeOrMissing ==
    conf # Missing =>
      /\ base # Missing
      /\ conf = WrittenUpTo(Done)

Kept == conf \in Files \/ new \in Files

\* A whole version of the parameters stays on the disk, in the file or in .new, when
\* the writer is killed between remove and rename as well.  One step alone loses it:
\* the next request, which finds no file and has emptied .new by then.
OnlyRetryLoses ==
    [][Kept => Kept' \/ (pc = "open" /\ conf = Missing)]_vars
=============================================================================
