---------------------------- MODULE BoardMessages ----------------------------
(***************************************************************************)
(* The messages of the file board (swarm_lib) and `swarm inbox --clear`.   *)
(* A message is a file in the inbox of a host or in that for all, named    *)
(* after the second and the sender; the archive is one directory for all   *)
(* inboxes.  A call that clears lists the files and then moves one by one, *)
(* while others send and clear the inbox for all.                          *)
(***************************************************************************)
EXTENDS Naturals

CONSTANTS
  Mails,       \* messages
  MailFrom, MailTo,
  MailHosts,   \* hosts, each of which may run one `swarm inbox`
  Everybody,   \* the inbox "broadcast"
  RuleMails,   \* those whose text has the rule of --clear-rule
  MaxMailSecond

ASSUME MailAssumption ==
  /\ Everybody \notin MailHosts /\ RuleMails \subseteq Mails
  /\ MailTo \in [Mails -> MailHosts \union {Everybody}]
  /\ MaxMailSecond \in Nat

VARIABLES
  inboxes,    \* the files: which box, the name (from, second), and the message
  archive,    \* the same of the archive
  mail,       \* of a message: not sent, or the second in its name
  mailSecond, \* the clock
  reading     \* of a host: where its call is, what it listed, which file it is at

mailVars == <<inboxes, archive, mail, mailSecond, reading>>

Boxes   == MailHosts \union {Everybody}
MailFile == [box : Boxes, second : 0..MaxMailSecond, mail : Mails]

NotReading == [at |-> "no", rule |-> FALSE, list |-> {}, file |-> {}]

MailTypeOK ==
  /\ inboxes \subseteq MailFile /\ archive \subseteq MailFile
  /\ mail \in [Mails -> [at : {"new", "named", "sent"}, second : 0..MaxMailSecond]]
  /\ mailSecond \in 0..MaxMailSecond
  /\ \A h \in MailHosts : /\ reading[h].at \in {"no", "own", "all", "clear", "move"}
                          /\ reading[h].list \subseteq MailFile

MailInit ==
  /\ inboxes = {} /\ archive = {}
  /\ mail = [m \in Mails |-> [at |-> "new", second |-> 0]]
  /\ mailSecond = 0
  /\ reading = [h \in MailHosts |-> NotReading]

-----------------------------------------------------------------------------
\* Mutant: the name of a file does not tell the sender.
SameNameAnySender(e, f) == e.second = f.second

\* "{ts}-from-{sender}.yaml"
SameName(e, f) == MailFrom[e.mail] = MailFrom[f.mail] /\ e.second = f.second

MailTick ==
  /\ mailSecond < MaxMailSecond
  /\ mailSecond' = mailSecond + 1
  /\ UNCHANGED <<inboxes, archive, mail, reading>>

\* send_message: the name; and the file, which replaces one of that name.
NameMail(m) ==
  /\ mail[m].at = "new"
  /\ mail' = [mail EXCEPT ![m] = [at |-> "named", second |-> mailSecond]]
  /\ UNCHANGED <<inboxes, archive, mailSecond, reading>>
WriteMail(m) ==
  LET f == [box |-> MailTo[m], second |-> mail[m].second, mail |-> m]
  IN  /\ mail[m].at = "named"
      /\ mail' = [mail EXCEPT ![m].at = "sent"]
      /\ inboxes' = {e \in inboxes : ~(e.box = f.box /\ SameName(e, f))} \union {f}
      /\ UNCHANGED <<archive, mailSecond, reading>>

\* read_inbox: the host's own files, then those for all; and, with
\* --clear-rule, only those that have the rule.
ListOwn(h) ==
  /\ reading[h].at = "no"
  /\ \E rule \in BOOLEAN :
       reading' = [reading EXCEPT ![h] =
         [at |-> "own", rule |-> rule, list |-> {e \in inboxes : e.box = h}, file |-> {}]]
  /\ UNCHANGED <<inboxes, archive, mail, mailSecond>>
ListAll(h) ==
  /\ reading[h].at = "own"
  /\ LET all == reading[h].list \union {e \in inboxes : e.box = Everybody}
     IN  reading' = [reading EXCEPT ![h].at = "clear",
           ![h].list = IF reading[h].rule THEN {e \in all : e.mail \in RuleMails} ELSE all]
  /\ UNCHANGED <<inboxes, archive, mail, mailSecond>>

\* archive_message, file by file: one that is gone is passed over, ...
Present(e) == {f \in inboxes : f.box = e.box /\ SameName(e, f)}
LookAtFile(h) ==
  /\ reading[h].at = "clear"
  /\ \E e \in reading[h].list :
       reading' = [reading EXCEPT ![h].list = @ \ {e},
                     ![h].at = IF Present(e) = {} THEN "clear" ELSE "move", ![h].file = {e}]
  /\ UNCHANGED <<inboxes, archive, mail, mailSecond>>
ListDone(h) ==
  /\ reading[h].at = "clear" /\ reading[h].list = {}
  /\ reading' = [reading EXCEPT ![h] = NotReading]
  /\ UNCHANGED <<inboxes, archive, mail, mailSecond>>

\* ... what is there now goes into the archive over a file of that name, and
\* one that went away since the look raises, which ends the command.
MoveFile(h) ==
  /\ reading[h].at = "move"
  /\ \E e \in reading[h].file :
       IF Present(e) = {}
       THEN /\ reading' = [reading EXCEPT ![h] = NotReading]
            /\ UNCHANGED <<inboxes, archive>>
       ELSE /\ archive' = {f \in archive : ~SameName(e, f)} \union Present(e)
            /\ inboxes' = inboxes \ Present(e)
            /\ reading' = [reading EXCEPT ![h].at = "clear", ![h].file = {}]
  /\ UNCHANGED <<mail, mailSecond>>

MailNext ==
  \/ MailTick
  \/ \E m \in Mails : NameMail(m) \/ WriteMail(m)
  \/ \E h \in MailHosts :
       ListOwn(h) \/ ListAll(h) \/ LookAtFile(h) \/ ListDone(h) \/ MoveFile(h)

-----------------------------------------------------------------------------
\* A message that was sent is in its inbox or in the archive, whoever clears
\* what at the same time; only another message of its sender in the same
\* second takes its place.
MailKept ==
  \A m \in Mails : mail[m].at = "sent" =>
    \/ \E f \in inboxes \union archive : f.mail = m
    \/ \E n \in Mails \ {m} :
         MailFrom[n] = MailFrom[m] /\ mail[n].at = "sent" /\ mail[n].second = mail[m].second
=============================================================================
