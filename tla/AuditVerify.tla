----------------------------- MODULE AuditVerify -----------------------------
(***************************************************************************)
(* The offline verifier (internal/auditchain/verify.go) as operators over  *)
(* an export: export[b] is the sequence of rows of boot b the verifier     *)
(* reads, in the order it reads them.  Contents are intact, so edit,       *)
(* key_unavailable and malformed are left out; the lines of an export may  *)
(* be missing, moved or repeated.  A finding is its kind and its boot.     *)
(***************************************************************************)
EXTENDS AuditChain, TLC

Flag(kind, raised) == IF raised THEN {kind} ELSE {}

\* The row a later one is compared with: the first with the highest number so far.
PrevRow(rows, i) ==
  rows[CHOOSE j \in 1..i-1 : \A h \in 1..i-1 : \/ rows[h].seq < rows[j].seq
                                               \/ rows[h].seq = rows[j].seq /\ j <= h]

\* macs and state.rows keep the first row of a number.
HasSeq(rows, n, seq) == \E j \in 1..n : rows[j].seq = seq
FirstWith(rows, n, seq) == rows[CHOOSE j \in 1..n : /\ rows[j].seq = seq
                                                    /\ \A h \in 1..j-1 : rows[h].seq # seq]

CheckpointValid(rows, i) ==
  LET signed == rows[i].signed IN
    /\ HasSeq(rows, i - 1, signed.seq) /\ signed.seq < rows[i].seq
    /\ Mac(FirstWith(rows, i - 1, signed.seq)) = signed.mac

\* Mutant: a number that is skipped is not looked at.
LinkFindingsLax(row, prev) ==
  LET rotated == row.event = "key_rotated" /\ row.prevKey = prev.key /\ row.key > row.prevKey IN
    Flag("duplicate", row.seq = prev.seq)
    \cup Flag("reorder", row.seq < prev.seq)
    \cup Flag("broken_link", row.seq = prev.seq + 1 /\ row.prev # Mac(prev))
    \cup Flag("key_change", (row.key # prev.key \/ row.event = "key_rotated") /\ ~rotated)

\* What row says against prev, the row it should follow.
LinkFindings(row, prev) ==
  LET rotated == row.event = "key_rotated" /\ row.prevKey = prev.key /\ row.key > row.prevKey IN
    Flag("duplicate", row.seq = prev.seq)
    \cup Flag("reorder", row.seq < prev.seq)
    \cup Flag("gap", row.seq > prev.seq + 1)
    \cup Flag("broken_link", row.seq = prev.seq + 1 /\ row.prev # Mac(prev))
    \cup Flag("key_change", (row.key # prev.key \/ row.event = "key_rotated") /\ ~rotated)

RowFindings(rows, i) ==
  (IF i = 1 THEN Flag("no_chain_start", \/ rows[1].seq # 0 \/ rows[1].event # "chain_start"
                                        \/ rows[1].prev # NoMac)
            ELSE LinkFindings(rows[i], PrevRow(rows, i)))
  \cup Flag("bad_checkpoint", rows[i].event = "checkpoint" /\ ~CheckpointValid(rows, i))

\* verifyChain.  MaxUnsigned is off: a boot is unsigned when no checkpoint of it is valid.
ChainFindings(rows) ==
  UNION {RowFindings(rows, i) : i \in DOMAIN rows}
  \cup Flag("unsigned_tail", \A i \in DOMAIN rows :
                               rows[i].event # "checkpoint" \/ ~CheckpointValid(rows, i))

\* What boot linking needs of a chain: its start, its highest number, its last key.
Started(rows) == \E i \in DOMAIN rows : rows[i].seq = 0 /\ rows[i].event = "chain_start"
StartRow(rows) == rows[CHOOSE i \in DOMAIN rows : /\ rows[i].seq = 0 /\ rows[i].event = "chain_start"
                                                  /\ \A h \in 1..i-1 : \/ rows[h].seq # 0
                                                                        \/ rows[h].event # "chain_start"]
TopRow(rows) == rows[CHOOSE i \in DOMAIN rows : \A h \in DOMAIN rows :
                       rows[h].seq < rows[i].seq \/ (rows[h].seq = rows[i].seq /\ h <= i)]

Present(export) == {b \in DOMAIN export : export[b] # <<>>}
Earliest(export, b) == \A c \in Present(export) : b <= c

\* The checkpoint row mac at number seq is among the rows.
Reaches(rows, seq, mac) == /\ HasSeq(rows, Len(rows), seq)
                           /\ LET row == FirstWith(rows, Len(rows), seq) IN
                                row.event = "checkpoint" /\ Mac(row) = mac

\* verifyBootLink: the first finding wins.
BootLinkFindings(export, b, partial) ==
  IF ~Started(export[b]) THEN {}
  ELSE LET start == StartRow(export[b])
           link  == start.link
           rows  == export[link.boot] IN
      IF link.boot # b - 1 \/ (link.boot = 0 /\ link # NoLink) THEN {<<"boot_link", b>>}
      ELSE IF link.boot = 0 THEN {}
      ELSE IF rows = <<>> THEN Flag(<<"missing_boot", link.boot>>, ~(partial /\ Earliest(export, b)))
      ELSE IF start.key < TopRow(rows).key THEN {<<"key_downgrade", b>>}
      ELSE IF link.mac = NoMac THEN {}
      ELSE IF HasSeq(rows, Len(rows), link.seq)
             THEN Flag(<<"boot_link", b>>, ~Reaches(rows, link.seq, link.mac))
      ELSE Flag(<<"truncated_tail", link.boot>>, link.seq > TopRow(rows).seq)

\* Mutant: only a boot with no row at all misses its head.
HeadFindingsLax(export, head) ==
  Flag(<<"missing_head", head.boot>>, head.boot # 0 /\ head.boot \notin Present(export))
  \cup {<<"unknown_boot", b>> : b \in {c \in Present(export) : c > head.boot}}

\* verifyHeads, for the head the store has for this replica.
HeadFindings(export, head) ==
  Flag(<<"missing_head", head.boot>>,
       /\ head.boot # 0
       /\ \/ head.boot \notin Present(export)
          \/ head.mac # NoMac /\ ~Reaches(export[head.boot], head.seq, head.mac))
  \cup {<<"unknown_boot", b>> : b \in {c \in Present(export) : c > head.boot}}

Verify(export, head, partial) ==
  UNION {ChainFindings(export[b]) \X {b} : b \in Present(export)}
  \cup UNION {BootLinkFindings(export, b, partial) : b \in Present(export)}
  \cup HeadFindings(export, head)

\* What the verifier checks instead of rows under --sort-by-seq.
SortBySeq(rows) == SortSeq(rows, LAMBDA r, q : r.seq < q.seq)
-----------------------------------------------------------------------------
\* No process is up.  What the verifier reads (the log and the store's head)
\* outlives the processes, and each of them may die at any moment, so every
\* combination the chain produces is also met here.
Quiet == \A p \in Proc : ~Up(p)

\* Everything that names a checkpoint of a boot from outside its chain.
NamedHeads == {store} \cup {proc[p].link : p \in Proc}
              \cup {log[b][1].link : b \in {c \in Boots : log[c] # <<>>}}

\* The store, the starting boot and the chain_start rows only ever name
\* checkpoints that are rows of the boot they are named for: a checkpoint is
\* persisted once its row is in the log, and a process that has been replaced
\* cannot put its own checkpoint under its successor's boot.
NamedHeadsAreRows == \A h \in NamedHeads : h.mac # NoMac => Reaches(log[h.boot], h.seq, h.mac)

\* The findings a log with nothing missing may raise: a boot that spent its
\* number and wrote nothing, a boot that got no signature, and, against the
\* verifier's own comment, the key of a boot that was up together with another
\* run under the name: it may have read its key before that one read a newer.
Excused ==
  {<<"unsigned_tail", b>> : b \in {c \in Boots : \A i \in DOMAIN log[c] : log[c][i].event # "checkpoint"}}
  \cup {"missing_boot", "missing_head"} \X {b \in Boots : log[b] = <<>>}
  \cup {<<"key_downgrade", proc[p].boot>> : p \in {q \in Proc : proc[q].overlap}}

\* The log from the boot first on.
Since(first) == [b \in Boots |-> IF b < first THEN <<>> ELSE log[b]]

\* The whole log, and with --partial-history the log from any boot on, raises no
\* other finding when read together with the store's head: rows recorded while a
\* checkpoint is being signed, failed writes, lost answers, restarts and
\* rotations break no link of the chain.
IntactLogIsClean ==
  Quiet => \A first \in 1..store.boot : Verify(Since(first), store, first > 1) \subseteq Excused

\* Exports in which boot b lost the rows i..j and the boots in gone are lost whole.
Lossy(b, i, j, gone) ==
  [c \in Boots |-> IF c \in gone THEN <<>>
                   ELSE IF c = b THEN SubSeq(log[b], 1, i - 1) \o SubSeq(log[b], j + 1, Len(log[b]))
                   ELSE log[c]]

\* Row number n of boot b is at or before a checkpoint that is named outside its
\* chain: by the store's head for the newest boot, else by the chain_start row of
\* the next, unless that row is reported for its key already.
Anchored(b, n) ==
  \/ store.boot = b /\ n <= store.seq
  \/ /\ b + 1 \in Present(log) /\ n <= log[b + 1][1].link.seq
     /\ <<"key_downgrade", b + 1>> \notin Verify(log, store, FALSE)

\* The loss of an anchored row raises a finding that the whole log does not
\* raise, also when other boots are missing with it.
LossIsFound ==
  Quiet => \A b \in Boots : \A i \in DOMAIN log[b] : \A j \in i..Len(log[b]), gone \in SUBSET (Boots \ {b}) :
    Anchored(b, i - 1) => Verify(Lossy(b, i, j, gone), store, FALSE) \ Verify(log, store, FALSE) # {}

\* Of all ways to read lines of one boot, repeated, moved or dropped, the chain
\* check accepts exactly the beginnings of the chain, and under --sort-by-seq
\* exactly those whose lines are the beginning of the chain in some order.
OnlyPrefixesPass ==
  LET Accepted(rows) ==
        ChainFindings(rows) \cap {"gap", "reorder", "duplicate", "broken_link", "no_chain_start"} = {} IN
  Quiet => \A b \in Boots : \A n \in 1..3 : \A pick \in [1..n -> DOMAIN log[b]] :
    LET rows == [i \in 1..n |-> log[b][pick[i]]] IN
      /\ (\A i \in 1..n : pick[i] = i) <=> Accepted(rows)
      /\ {pick[i] : i \in 1..n} = 1..n <=> Accepted(SortBySeq(rows))

\* What the operator's guide promises: a cut can only hide behind the newest
\* checkpoint a boot persisted.  With the end of boot b gone from a row on that
\* its process had persisted a checkpoint for, the verifier says something.
CutsHideAfterCheckpoint ==
  Quiet => \A p \in Proc : LET b == proc[p].boot IN
    \A n \in 1..proc[p].saved : Verify(Lossy(b, n + 1, Len(log[b]), {}), store, FALSE) # {}
=============================================================================
