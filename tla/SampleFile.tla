----------------------------- MODULE SampleFile -----------------------------
(***************************************************************************)
(* The samples.jsonl file of a shard: what SampleSink (round_runner.py)    *)
(* appends to it, what a kill leaves of it and what a reader gets back.    *)
(*                                                                         *)
(* A file is [lines, open]: its lines, each a record or Junk when it does  *)
(* not decode, and whether the last line lacks its newline.                *)
(***************************************************************************)
EXTENDS Naturals, Sequences, SequencesExt

Junk == [cand |-> 0, again |-> FALSE]   \* no candidate is number 0
Whole == "whole"      \* the kill falls between two records
Fragment == "frag"    \* it cuts a record in two
Bare == "bare"        \* it cuts a record just before its newline

Empty == [lines |-> <<>>, open |-> FALSE]

\* write(line + "\n") of each record at the end of the file, which is opened
\* for append as it is: the first record joins a last line left open.
Appended(file, recs) ==
  IF recs = <<>> THEN file
  ELSE [lines |-> IF file.open THEN Front(file.lines) \o <<Junk>> \o Tail(recs)
                               ELSE file.lines \o recs,
        open  |-> FALSE]

\* The start `line' of the next record reaches the file, without its newline.
Cut(file, line) ==
  [lines |-> IF file.open THEN Front(file.lines) \o <<Junk>>
                          ELSE Append(file.lines, line),
   open  |-> TRUE]

\* The files a kill may leave when the records of `buf' are not flushed yet: a
\* prefix of the buffer is there, the next record perhaps in part.
AfterKill(file, buf, tears) ==
  UNION {{IF t = Whole \/ k = Len(buf)
            THEN Appended(file, SubSeq(buf, 1, k))
            ELSE Cut(Appended(file, SubSeq(buf, 1, k)),
                     IF t = Bare THEN buf[k + 1] ELSE Junk) :
            t \in tears} : k \in 0 .. Len(buf)}

\* _loaded_sample_progress: every line that decodes, whatever its neighbours.
Decoded(file) == {file.lines[i] : i \in DOMAIN file.lines} \ {Junk}
=============================================================================
