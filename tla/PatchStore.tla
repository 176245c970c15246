-------------------------------- MODULE PatchStore --------------------------------
(***************************************************************************)
(* What the patch service promises: files that change in one step, each    *)
(* change a compare-and-swap that a client asked for, on the version it    *)
(* named, with what it replaces saved before.  Temporary files, removals,  *)
(* retention, statuses and line ends are not seen.  PatchService           *)
(* implements it as long as one request is served at a time.               *)
(***************************************************************************)
EXTENDS Functions

CONSTANTS
  Path, Thread, Id,
  Texts,           \* texts that clients put into files
  OutsideTexts,    \* texts that editors save
  Versions,        \* versions that clients may know: a text, Absent or AnyText
  InitialText,     \* Path -> the text of the file at first
  Absent, AnyText  \* no file; a client that names no version

VARIABLES
  text,       \* Path -> the text of the file, or Absent
  open,       \* previews that can be applied: path, version they replace, text
  applied,    \* previews that were
  saved,      \* texts that a rollback can bring back: <<path, text>>
  ask         \* Thread -> the apply or rollback that is asked for, or Nothing

vars == <<text, open, applied, saved, ask>>

NoId == 0
Nothing == [kind |-> "none", id |-> NoId, path |-> "", base |-> AnyText, text |-> Absent]

Init == /\ text = InitialText
        /\ open = <<>> /\ applied = {} /\ saved = {}
        /\ ask = [t \in Thread |-> Nothing]

\* A preview is of the file as it is.
Make(id) ==
  /\ id \notin DOMAIN open \cup applied
  /\ \E p \in Path, new \in Texts :
       open' = [i \in DOMAIN open \cup {id} |->
                  IF i = id THEN [path |-> p, base |-> text[p], text |-> new] ELSE open[i]]
  /\ UNCHANGED <<text, applied, saved, ask>>

\* Previews expire and are evicted.
Forget(id) ==
  /\ open' = Restrict(open, DOMAIN open \ {id})
  /\ UNCHANGED <<text, applied, saved, ask>>

AskApply(t) ==
  /\ ask[t] = Nothing
  /\ \/ \E id \in DOMAIN open :
          ask' = [ask EXCEPT ![t] = [kind |-> "apply", id |-> id, path |-> open[id].path,
                                     base |-> open[id].base, text |-> open[id].text]]
     \/ \E p \in Path, base \in Versions, new \in Texts :
          ask' = [ask EXCEPT ![t] = [kind |-> "apply", id |-> NoId, path |-> p,
                                     base |-> base, text |-> new]]
  /\ UNCHANGED <<text, open, applied, saved>>

AskRollback(t) ==
  /\ ask[t] = Nothing
  /\ \E s \in saved : ask' = [ask EXCEPT ![t] = [Nothing EXCEPT !.kind = "rollback",
                                                 !.path = s[1], !.text = s[2]]]
  /\ UNCHANGED <<text, open, applied, saved>>

\* The file is swapped for the text that was asked for.  An apply finds the version its
\* client named, and that version saved; its preview is there and cannot be applied again.
Commit(t) ==
  LET a == ask[t]
  IN  /\ a # Nothing
      /\ a.kind = "apply" => /\ a.base \in {AnyText, text[a.path]}
                             /\ <<a.path, text[a.path]>> \in saved
                             /\ a.id \in DOMAIN open \cup {NoId}
      /\ text' = [text EXCEPT ![a.path] = a.text]
      /\ applied' = applied \cup ({a.id} \ {NoId})
      /\ open' = Restrict(open, DOMAIN open \ {a.id})
      /\ ask' = [ask EXCEPT ![t] = Nothing]
      /\ UNCHANGED saved

Refuse(t) ==
  /\ ask' = [ask EXCEPT ![t] = Nothing]
  /\ UNCHANGED <<text, open, applied, saved>>

Save(p) == saved' = saved \cup {<<p, text[p]>>} /\ UNCHANGED <<text, open, applied, ask>>

Drop(s) == saved' = saved \ {s} /\ UNCHANGED <<text, open, applied, ask>>

Edit(p) ==
  /\ \E new \in OutsideTexts : text' = [text EXCEPT ![p] = new]
  /\ UNCHANGED <<open, applied, saved, ask>>

Next == \/ \E id \in Id : Make(id) \/ Forget(id)
        \/ \E t \in Thread : AskApply(t) \/ AskRollback(t) \/ Commit(t) \/ Refuse(t)
        \/ \E p \in Path : Save(p) \/ Edit(p)
        \/ \E s \in saved : Drop(s)

Spec == Init /\ [][Next]_vars
=============================================================================
