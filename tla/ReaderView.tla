----------------------------- MODULE ReaderView -----------------------------
(***************************************************************************)
(* What scripts/gpt_translation_store.py promises a reader, without slots, *)
(* claims, leases, attempts or budgets: a version of a source is           *)
(* translated at most once, what is shown is that translation, it is of    *)
(* the version current when it appears, and an owner's own text gives way  *)
(* only to the owner.  GPTStore implements it (GPTStore!KeepsPromise).     *)
(***************************************************************************)
CONSTANTS
  Items,   \* translation targets
  Genius,  \* the Items that are Genius annotations: their text is never the owner's
  Fps,     \* source versions
  None     \* no source, no version

VARIABLES
  source,  \* item -> current source version
  row,     \* item -> what the reader sees
  stored   \* <<item, version>> -> its translation, 0 until there is one

vars == <<source, row, stored>>

Init ==
  /\ source \in [Items -> Fps]
  /\ row \in [Items -> [status : {"absent", "requested"}, origin : {"none"},
                        fp : {None}, by : {0}]]
  /\ stored = [w \in Items \X Fps |-> 0]

(* An owner's text, unless she asked for a translation over it. *)
Owned(i) == i \notin Genius /\ row[i].origin = "manual" /\ row[i].status # "requested"

Current(i) == <<i, source[i]>>

Becomes(i, r) == row' = [row EXCEPT ![i] = r]

Translated(i, n) == [status |-> "done", origin |-> "poller", fp |-> source[i], by |-> n]

-----------------------------------------------------------------------------
Recrawl(i) ==
  /\ \E f \in Fps \cup {None} : source' = [source EXCEPT ![i] = f]
  /\ UNCHANGED <<row, stored>>

Ask(i) ==
  /\ i \notin Genius
  /\ Becomes(i, [row[i] EXCEPT !.status = "requested"])
  /\ UNCHANGED <<source, stored>>

Write(i) ==
  /\ i \notin Genius
  /\ Becomes(i, [status |-> "done", origin |-> "manual", fp |-> source[i], by |-> 0])
  /\ UNCHANGED <<source, stored>>

(* Only a pending request is ever rejected. *)
Reject(i) ==
  /\ row[i].status = "requested"
  /\ Becomes(i, [row[i] EXCEPT !.status = "failed"])
  /\ UNCHANGED <<source, stored>>

(* The current version gets some translation, shown at once or kept for later. *)
Translate(i) ==
  LET n == stored'[Current(i)]
  IN  /\ source[i] \in Fps /\ stored[Current(i)] = 0 /\ n # 0
      /\ stored' = [stored EXCEPT ![Current(i)] = n]
      /\ \/ UNCHANGED row
         \/ ~Owned(i) /\ Becomes(i, Translated(i, n))
      /\ UNCHANGED source

Show(i) ==
  /\ source[i] \in Fps /\ stored[Current(i)] # 0 /\ ~Owned(i)
  /\ Becomes(i, Translated(i, stored[Current(i)]))
  /\ UNCHANGED <<source, stored>>

Next ==
  \E i \in Items :
    Recrawl(i) \/ Ask(i) \/ Write(i) \/ Reject(i) \/ Show(i) \/ Translate(i)

Spec == Init /\ [][Next]_vars

=============================================================================
