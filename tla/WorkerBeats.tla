---------------------------- MODULE WorkerBeats ----------------------------
(***************************************************************************)
(* heartbeat.py: the heartbeat of one task, in Redis or, when Redis does   *)
(* not answer, in a file, and the two questions a dispatcher asks.  The    *)
(* record in Redis is taken first whenever there is one, and the time of   *)
(* the last progress is kept in Redis only.  Time is the age of a record:  *)
(* fresh, old (90 s), and, for what is in Redis, gone.                     *)
(***************************************************************************)
VARIABLES
  hbUp,         \* Redis answers
  hbRecord,     \* none, fresh or old, in redis and in file
  hbProgress,   \* routing:hb:progress: none, fresh or stale (300 s)
  hbWorker,     \* works, ended or dead
  hbLast,       \* where the last ping went
  hbVerdict     \* what the dispatcher was told last

beatVars == <<hbUp, hbRecord, hbProgress, hbWorker, hbLast, hbVerdict>>

BeatsTypeOK ==
  /\ hbUp \in BOOLEAN
  /\ hbRecord \in [{"redis", "file"} -> {"none", "fresh", "old"}]
  /\ hbProgress \in {"none", "fresh", "stale"}
  /\ hbWorker \in {"works", "ended", "dead"}
  /\ hbLast \in {"redis", "file"}
  /\ hbVerdict \in {"none", "dead", "stuck"}

\* The thread has pinged for the first time.
BeatsInit ==
  /\ hbUp \in BOOLEAN
  /\ hbLast = IF hbUp THEN "redis" ELSE "file"
  /\ hbRecord = [s \in {"redis", "file"} |-> IF s = hbLast THEN "fresh" ELSE "none"]
  /\ hbProgress = "none"
  /\ hbWorker = "works"
  /\ hbVerdict = "none"

-----------------------------------------------------------------------------
\* write_heartbeat
WriteBeat ==
  /\ hbWorker = "works"
  /\ hbLast' = IF hbUp THEN "redis" ELSE "file"
  /\ hbRecord' = [hbRecord EXCEPT ![hbLast'] = "fresh"]
Ping == WriteBeat /\ UNCHANGED <<hbUp, hbProgress, hbWorker, hbVerdict>>

\* Mutant: the file is read first.
ReadBeatFile == IF hbRecord["file"] # "none" THEN hbRecord["file"]
                ELSE IF hbUp THEN hbRecord["redis"] ELSE "none"

\* read_heartbeat
ReadBeat == IF hbUp /\ hbRecord["redis"] # "none" THEN hbRecord["redis"] ELSE hbRecord["file"]

\* Mutant: a worker that has a record is alive.
IsAliveRecorded == ReadBeat # "none"
IsAlive == ReadBeat = "fresh"

\* update_progress: nothing without a record.
UpdateProgress ==
  /\ IF ReadBeat = "none"
       THEN hbWorker = "works" /\ UNCHANGED <<hbRecord, hbLast, hbProgress>>
       ELSE WriteBeat /\ hbProgress' = IF hbUp THEN "fresh" ELSE hbProgress
  /\ UNCHANGED <<hbUp, hbWorker, hbVerdict>>

WorkerEnds ==
  /\ hbWorker = "works"
  /\ hbWorker' \in {"ended", "dead"}
  /\ UNCHANGED <<hbUp, hbRecord, hbProgress, hbLast, hbVerdict>>

\* A worker that works pings every 30 seconds, so only a record it does not
\* write any more grows old.
RecordAges(s) ==
  /\ hbRecord[s] = "fresh" /\ ~(hbWorker = "works" /\ hbLast = s)
  /\ hbRecord' = [hbRecord EXCEPT ![s] = "old"]
  /\ UNCHANGED <<hbUp, hbProgress, hbWorker, hbLast, hbVerdict>>
\* The keys expire.
RecordExpires ==
  /\ hbRecord["redis"] = "old"
  /\ hbRecord' = [hbRecord EXCEPT !["redis"] = "none"]
  /\ UNCHANGED <<hbUp, hbProgress, hbWorker, hbLast, hbVerdict>>
ProgressAges ==
  /\ hbProgress' = CASE hbProgress = "fresh" -> "stale" [] OTHER -> "none"
  /\ UNCHANGED <<hbUp, hbRecord, hbWorker, hbLast, hbVerdict>>
RedisFlipsBeat ==
  /\ hbUp' = ~hbUp
  /\ UNCHANGED <<hbRecord, hbProgress, hbWorker, hbLast, hbVerdict>>

\* reap_dead_workers
ReapDead ==
  /\ hbVerdict' = IF IsAlive THEN "none" ELSE "dead"
  /\ UNCHANGED <<hbUp, hbRecord, hbProgress, hbWorker, hbLast>>
\* reap_stuck_workers, of a worker that started more than 300 s before its last ping.
ReapStuck ==
  /\ hbVerdict' = IF IsAlive /\ hbUp /\ hbProgress = "stale" THEN "stuck" ELSE "none"
  /\ UNCHANGED <<hbUp, hbRecord, hbProgress, hbWorker, hbLast>>

BeatsNext ==
  \/ Ping \/ UpdateProgress \/ WorkerEnds \/ RecordExpires \/ ProgressAges \/ RedisFlipsBeat
  \/ \E s \in {"redis", "file"} : RecordAges(s)
  \/ ReapDead \/ ReapStuck

\* The dispatcher asks, and time passes.
BeatsFairness ==
  /\ \A s \in {"redis", "file"} : WF_beatVars(RecordAges(s))
  /\ WF_beatVars(RecordExpires) /\ WF_beatVars(ReapDead)

-----------------------------------------------------------------------------
\* A worker that pings is called dead only while the record of its last ping
\* is out of reach: Redis went, or came back with an old record, since then.
VerdictsRight ==
  [][hbVerdict' = "dead" /\ hbVerdict # "dead" /\ hbWorker = "works"
       => hbUp # (hbLast = "redis")]_beatVars

\* A worker that died is found, wherever its last pings went.
DeadFound == hbWorker = "dead" ~> hbVerdict = "dead"
=============================================================================
