---------------------------- MODULE EvalVersions ----------------------------
(* The versions of one eval definition in the PostgreSQL store: a current row, *)
(* a row per version keyed by the millisecond it was put in, and aliases of    *)
(* versions. Each request has a store of its own, so two may draw one time.    *)
EXTENDS Naturals

CONSTANTS
  Writers,     \* requests that change the eval; each puts a definition of its own
  MaxTime,     \* bound: milliseconds that pass
  NoVersion

ASSUME VersionAssumption == NoVersion \notin Writers

VARIABLES
  current,     \* the row of evals: [version, body], or NoVersion
  versions,    \* time -> the definition of that version, or NoVersion
  alias,       \* the version the alias names, or NoVersion
  now,         \* the clock
  writer,      \* request -> [op, step, time, body]
  torn         \* a delete overlapped another change, or was left half-way

versionVars == <<current, versions, alias, now, writer, torn>>

Times == 1 .. MaxTime
Ops == {"put", "activate", "alias", "unalias", "delete"}
Idle == [op |-> "put", step |-> "idle", time |-> 0, body |-> NoVersion]
Busy == {w \in Writers : writer[w].step \notin {"idle", "over"}}
Deletes == {w \in Busy : writer[w].op = "delete"}
Moves(w, next) == writer' = [writer EXCEPT ![w] = next]
Ends(w) == Moves(w, [writer[w] EXCEPT !.step = "over"])

VersionInit ==
  /\ current = NoVersion
  /\ versions = [t \in Times |-> NoVersion]
  /\ alias = NoVersion
  /\ now = 1
  /\ writer = [w \in Writers |-> Idle]
  /\ torn = FALSE

\* A request begins: it draws its time, or reads the version it names, if any.
BeginChange(w, op, t) ==
  /\ writer[w].step = "idle"
  /\ op \in {"put", "delete"} => t = now
  /\ IF op \in {"put", "delete", "unalias"} \/ versions[t] # NoVersion
     THEN Moves(w, [op |-> op, step |-> "commit", time |-> t,
                    body |-> IF op = "put" THEN w ELSE versions[t]])
     ELSE Ends(w)
  /\ torn' = (torn \/ (IF op = "delete" THEN Busy # {} ELSE Deletes # {}))
  /\ UNCHANGED <<current, versions, alias, now>>

\* A mutant: a version of the same millisecond is replaced.
PutReplaces(w) ==
  /\ writer[w].step = "commit" /\ writer[w].op = "put"
  /\ LET v == writer[w].time IN
     /\ current' = [version |-> v, body |-> w]
     /\ versions' = [versions EXCEPT ![v] = w]
  /\ Ends(w)
  /\ UNCHANGED <<alias, now, torn>>

\* putEval's transaction; a version with its key makes it fail and roll back.
PutEval(w) ==
  /\ writer[w].step = "commit" /\ writer[w].op = "put"
  /\ LET v == writer[w].time IN
     IF versions[v] = NoVersion
     THEN /\ current' = [version |-> v, body |-> w]
          /\ versions' = [versions EXCEPT ![v] = w]
     ELSE UNCHANGED <<current, versions>>
  /\ Ends(w)
  /\ UNCHANGED <<alias, now, torn>>

\* activateEvalVersion's transaction: what was read becomes current.
ActivateEval(w) ==
  /\ writer[w].step = "commit" /\ writer[w].op = "activate"
  /\ current' = [version |-> writer[w].time, body |-> writer[w].body]
  /\ Ends(w)
  /\ UNCHANGED <<versions, alias, now, torn>>

SetAlias(w) ==
  /\ writer[w].step = "commit" /\ writer[w].op \in {"alias", "unalias"}
  /\ alias' = IF writer[w].op = "alias" THEN writer[w].time ELSE NoVersion
  /\ Ends(w)
  /\ UNCHANGED <<current, versions, now, torn>>

\* deleteEval: three statements, each a transaction of its own.
DeleteEval(w) ==
  /\ writer[w].op = "delete"
  /\ CASE writer[w].step = "commit" ->
            /\ current' = NoVersion
            /\ Moves(w, [writer[w] EXCEPT !.step = "versions"])
            /\ UNCHANGED <<versions, alias>>
       [] writer[w].step = "versions" ->
            /\ versions' = [t \in Times |-> NoVersion]
            /\ Moves(w, [writer[w] EXCEPT !.step = "aliases"])
            /\ UNCHANGED <<current, alias>>
       [] writer[w].step = "aliases" ->
            /\ alias' = NoVersion
            /\ Ends(w)
            /\ UNCHANGED <<current, versions>>
       [] OTHER -> FALSE
  /\ UNCHANGED <<now, torn>>

\* A statement throws: what the request committed before it stays.
ChangeThrows(w) ==
  /\ w \in Busy
  /\ Ends(w)
  /\ torn' = (torn \/ (writer[w].op = "delete" /\ writer[w].step # "commit"))
  /\ UNCHANGED <<current, versions, alias, now>>

Tick ==
  /\ now < MaxTime
  /\ now' = now + 1
  /\ UNCHANGED <<current, versions, alias, writer, torn>>

VersionNext ==
  \/ \E w \in Writers : \/ \E op \in Ops, t \in Times : BeginChange(w, op, t)
                        \/ PutEval(w) \/ ActivateEval(w) \/ SetAlias(w)
                        \/ DeleteEval(w) \/ ChangeThrows(w)
  \/ Tick

VersionSpec == VersionInit /\ [][VersionNext]_versionVars

-----------------------------------------------------------------------------
(* Properties. *)

\* A run that pins the version of the current row, or of an alias, finds under it
\* the definition it ran with.
PinsResolve ==
  torn \/ Deletes # {} \/
          /\ current # NoVersion => versions[current.version] = current.body
          /\ alias # NoVersion => versions[alias] # NoVersion

\* A version never changes: it is there with the definition it was put with, or
\* it is deleted.  Pins resolve, but while a delete is under way, where one
\* overlapped another change, or where one was left half-way.
VersionsHold ==
  [][ /\ \A t \in Times : versions[t] # NoVersion => versions'[t] \in {versions[t], NoVersion}
      /\ PinsResolve' ]_versionVars
=============================================================================
