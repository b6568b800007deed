------------------------------ MODULE PairingLife ------------------------------
(***************************************************************************)
(* The life of a pairing: receiver start-up with its two persistent files  *)
(* (rm-display-receiver/src/main.rs, rm-display-transport/src/lib.rs), the  *)
(* serve loop with its pairing QR and NEW PAIR                             *)
(* (rm-display-receiver/src/server.rs), and producers that scan the QR.    *)
(*                                                                         *)
(* A receiver process may be stopped between any two steps: by a kill, by  *)
(* EXIT in its menu, or by an error that run() returns.  Files survive; so *)
(* does the picture on the e-paper panel.  Files are as other processes    *)
(* see them; the loss of power, which may undo a rename, is not modelled.  *)
(* The file an operator names with --psk-file is the receiver's own.       *)
(***************************************************************************)
EXTENDS FiniteSets

CONSTANTS
  Processes,   \* receiver processes on one device, launched again and again
  Keys,        \* keys Psk::generate returns, each once
  ServerIds,   \* identities random_server_id returns, each once
  Launches     \* command lines an operator uses

\* --server-id gives an explicit identity; --plaintext with --psk-file, which
\* Arguments::parse rejects, has no value here.
Arguments ==
  [security : {"managed", "psk_file", "plaintext"},
   pairing_qr : BOOLEAN, server_id : BOOLEAN]

\* The other rejected combination: a generated key nobody could learn.
Parsed(a) == a.pairing_qr \/ a.security # "managed"

ASSUME PairingAssumption ==
  /\ Launches \subseteq {a \in Arguments : Parsed(a)}
  /\ IsFiniteSet(Keys) /\ IsFiniteSet(ServerIds)
  /\ Keys \cap ServerIds = {}
  /\ {"absent", "partial", "explicit"} \cap (Keys \cup ServerIds) = {}

Items == {"psk", "server-id"}

Values(i) == IF i = "psk" THEN Keys ELSE ServerIds

VARIABLES
  file,      \* contents of pairing.psk and server-id
  used,      \* keys and identities generated so far
  proc,      \* every receiver process
  screen,    \* the offer the panel shows, or NoOffer
  scanned,   \* offers producers hold
  revoked,   \* keys that a NEW PAIR replaced
  overtaken  \* processes another process rotated the key under

lifeVars == <<file, used, proc, screen, scanned, revoked, overtaken>>

NoOffer == [security |-> "none"]

NoArguments == [security |-> "none"]

\* pc is the step the process is at and item the file its start-up is at;
\* psk and id are its key (self.psk, config.security) and its identity; staged
\* is a key stored but not installed; peer is the offer of its producer.
Ended(reason) ==
  [pc |-> reason, args |-> NoArguments, item |-> "psk", psk |-> "absent",
   id |-> "absent", staged |-> "absent", qr_enabled |-> FALSE,
   peer |-> NoOffer]

Down == {"down", "refused"}

\* From bind on, the process owns the listening socket.
Listening == {"show", "idle", "serving", "rotate", "install"}

UsesKey(p) == proc[p].args.security # "plaintext"

\* pairing_uri
Offer(p) ==
  [security |-> IF UsesKey(p) THEN "psk" ELSE "plain",
   psk |-> proc[p].psk, server |-> proc[p].id]

--------------------------------------------------------------------------------
(* Start-up: main.rs run().                                                 *)

\* The process with item i dealt with, at what comes next.
Toward(i, r) ==
  IF i = "psk" /\ r.args.security # "plaintext"
    THEN [r EXCEPT !.pc = "load", !.item = "psk"]
  ELSE IF i # "bind" /\ ~r.args.server_id
    THEN [r EXCEPT !.pc = "load", !.item = "server-id"]
  ELSE [r EXCEPT !.pc = "bind"]

AfterItem(r) == Toward(IF r.item = "psk" THEN "server-id" ELSE "bind", r)

\* The item the process is at, held in memory.
Holding(r, v) ==
  IF r.item = "psk" THEN [r EXCEPT !.psk = v] ELSE [r EXCEPT !.id = v]

Held(r) == IF r.item = "psk" THEN r.psk ELSE r.id

Launch(p, a) ==
  /\ proc[p].pc \in Down
  /\ proc' = [proc EXCEPT ![p] =
       Toward("psk", [Ended("down") EXCEPT
         !.args = a, !.id = IF a.server_id THEN "explicit" ELSE "absent"])]
  /\ overtaken' = overtaken \ {p}
  /\ UNCHANGED <<file, used, screen, scanned, revoked>>

\* load_or_create_psk and load_or_create_server_id create only what the receiver
\* owns; a file named by --psk-file must exist.
Creates(r) == r.item = "server-id" \/ r.args.security = "managed"

\* Psk::load and load_server_id, the first time or after AlreadyExists.
Load(p) ==
  LET r == proc[p]
      f == file[r.item]
  IN /\ r.pc \in {"load", "reload"}
     /\ proc' = [proc EXCEPT ![p] =
          IF f = "partial" THEN Ended("refused")
          ELSE IF f # "absent" THEN AfterItem(Holding(r, f))
          ELSE IF r.pc = "load" /\ Creates(r) THEN [r EXCEPT !.pc = "create"]
          ELSE Ended("down")]
     /\ UNCHANGED <<file, used, screen, scanned, revoked, overtaken>>

Fresh(i) == Values(i) \ used

\* Psk::generate and random_server_id: a value not seen before, whichever.
generate(i) == CHOOSE v \in Fresh(i) : TRUE

\* Mutant: the file is opened without create_new.
Exists_Never(i) == FALSE

Exists(i) == file[i] # "absent"

\* generate, then store_new or store_server_id: open with create_new ...
Create(p) ==
  LET r == proc[p]
  IN /\ r.pc = "create"
     /\ \/ /\ Exists(r.item)
           /\ proc' = [proc EXCEPT ![p].pc = "reload"]
           /\ UNCHANGED <<file, used>>
        \/ /\ ~Exists(r.item) /\ Fresh(r.item) # {}
           /\ file' = [file EXCEPT ![r.item] = "partial"]
           /\ used' = used \cup {generate(r.item)}
           /\ proc' = [proc EXCEPT
                ![p] = [Holding(r, generate(r.item)) EXCEPT !.pc = "write"]]
     /\ UNCHANGED <<screen, scanned, revoked, overtaken>>

\* ... then write and sync.
Write(p) ==
  /\ proc[p].pc = "write"
  /\ file' = [file EXCEPT ![proc[p].item] = Held(proc[p])]
  /\ proc' = [proc EXCEPT ![p] = AfterItem(@)]
  /\ UNCHANGED <<used, screen, scanned, revoked, overtaken>>

\* store_new removes the key file it could not write.  store_server_id does not
\* remove its own, which is Stop at this point.
WriteFails(p) ==
  /\ proc[p].pc = "write" /\ proc[p].item = "psk"
  /\ file' = [file EXCEPT !["psk"] = "absent"]
  /\ proc' = [proc EXCEPT ![p] = Ended("down")]
  /\ UNCHANGED <<used, screen, scanned, revoked, overtaken>>

\* ReceiverServer::bind, and main's choice to show the QR before run().
Bind(p) ==
  /\ proc[p].pc = "bind"
  /\ proc' = [proc EXCEPT ![p] =
       IF \E q \in Processes : proc[q].pc \in Listening THEN Ended("down")
       ELSE [@ EXCEPT !.pc = IF proc[p].args.pairing_qr THEN "show" ELSE "idle"]]
  /\ UNCHANGED <<file, used, screen, scanned, revoked, overtaken>>

--------------------------------------------------------------------------------
(* The serve loop: server.rs run().                                         *)

show_pairing_qr(p) ==
  /\ proc[p].pc = "show"
  /\ screen' = Offer(p)
  /\ proc' = [proc EXCEPT ![p].pc = "idle", ![p].qr_enabled = TRUE]
  /\ UNCHANGED <<file, used, scanned, revoked, overtaken>>

\* NEW PAIR closes the session there is; without a key only the QR is renewed.
new_pairing(p) ==
  /\ proc[p].pc \in {"idle", "serving"}
  /\ proc' = [proc EXCEPT ![p].peer = NoOffer,
                          ![p].pc = IF UsesKey(p) THEN "rotate" ELSE "show"]
  /\ UNCHANGED <<file, used, screen, scanned, revoked, overtaken>>

\* Mutant: the replacement key is installed but not stored.
store_atomic_Skipped(k) == file

\* A temporary file and a rename.
store_atomic(k) == [file EXCEPT !["psk"] = k]

Rotate(p) ==
  /\ proc[p].pc = "rotate"
  /\ Fresh("psk") # {}
  /\ file' = store_atomic(generate("psk"))
  /\ used' = used \cup {generate("psk")}
  /\ proc' = [proc EXCEPT ![p].pc = "install", ![p].staged = generate("psk")]
  /\ revoked' = revoked \cup ({proc[p].psk, file["psk"]} \cap Keys)
  /\ overtaken' = overtaken \cup
                    {q \in Processes \ {p} : proc[q].pc \notin Down}
  /\ UNCHANGED <<screen, scanned>>

\* Mutant: the QR is not renewed after the key is.
AfterInstall_Idle == "idle"

AfterInstall == "show"

\* PskServerConfig::new and config.security take the stored key.
Install(p) ==
  /\ proc[p].pc = "install"
  /\ proc' = [proc EXCEPT ![p].psk = proc[p].staged, ![p].staged = "absent",
                          ![p].pc = AfterInstall]
  /\ UNCHANGED <<file, used, screen, scanned, revoked, overtaken>>

\* Mutant: any known peer is let in.
Accepts_Any(p, o) == o.security = Offer(p).security

\* PskServerConfig::accept: both ends hold the same key.  Plain and TLS records
\* do not understand each other.
Accepts(p, o) ==
  /\ o.security = Offer(p).security
  /\ UsesKey(p) => o.psk = proc[p].psk

\* Mutant: the QR stays away after a connection.
AfterSession_Idle(r) == [r EXCEPT !.peer = NoOffer, !.pc = "idle"]

\* run() shows the QR again after every connection.
AfterSession(r) ==
  [r EXCEPT !.peer = NoOffer, !.pc = IF r.qr_enabled THEN "show" ELSE "idle"]

\* wait_for_idle_connection and the handshake of serve_stream, which may fail
\* or time out even for the right key.
Connect(p, o) ==
  /\ proc[p].pc = "idle"
  /\ \/ /\ Accepts(p, o)
        /\ proc' = [proc EXCEPT ![p].pc = "serving", ![p].peer = o]
     \/ proc' = [proc EXCEPT ![p] = AfterSession(@)]
  /\ UNCHANGED <<file, used, screen, scanned, revoked, overtaken>>

\* A producer's frames replace the QR on the panel.
Present(p) ==
  /\ proc[p].pc = "serving"
  /\ screen' = NoOffer
  /\ UNCHANGED <<file, used, proc, scanned, revoked, overtaken>>

\* drive_connection returns.
Disconnect(p) ==
  /\ proc[p].pc = "serving"
  /\ proc' = [proc EXCEPT ![p] = AfterSession(@)]
  /\ UNCHANGED <<file, used, screen, scanned, revoked, overtaken>>

--------------------------------------------------------------------------------
(* The environment.                                                         *)

\* Killed, EXIT in the menu, or an error that ends run().
Stop(p) ==
  /\ proc[p].pc \notin Down
  /\ proc' = [proc EXCEPT ![p] = Ended("down")]
  /\ UNCHANGED <<file, used, screen, scanned, revoked, overtaken>>

\* A producer scans the QR, also one that no receiver stands behind any more.
Scan ==
  /\ screen # NoOffer
  /\ scanned' = scanned \cup {screen}
  /\ UNCHANGED <<file, used, proc, screen, revoked, overtaken>>

\* Another application takes the panel.
OtherApp ==
  /\ \A p \in Processes : proc[p].pc \notin Listening
  /\ screen' = NoOffer
  /\ UNCHANGED <<file, used, proc, scanned, revoked, overtaken>>

LifeInit ==
  /\ file = [i \in Items |-> "absent"] /\ used = {}
  /\ proc = [p \in Processes |-> Ended("down")]
  /\ screen = NoOffer /\ scanned = {} /\ revoked = {} /\ overtaken = {}

\* The steps a process takes by itself.
Runs(p) ==
  \/ Load(p)
  \/ Create(p)
  \/ Write(p)
  \/ Bind(p)
  \/ show_pairing_qr(p)
  \/ Rotate(p)
  \/ Install(p)

LifeNext ==
  \/ \E p \in Processes :
       \/ Runs(p)
       \/ \E a \in Launches : Launch(p, a)
       \/ WriteFails(p)
       \/ new_pairing(p)
       \/ \E o \in scanned : Connect(p, o)
       \/ Present(p)
       \/ Disconnect(p)
       \/ Stop(p)
  \/ Scan
  \/ OtherApp

LifeSpec == LifeInit /\ [][LifeNext]_lifeVars

(* run() is straight-line code between its waits. *)
FairLife == LifeSpec /\ \A p \in Processes : WF_lifeVars(Runs(p))

--------------------------------------------------------------------------------
(* Properties.                                                              *)

Offers ==
  [security : {"psk"}, psk : Keys, server : ServerIds \cup {"explicit"}]
    \cup [security : {"plain"}, psk : {"absent"},
          server : ServerIds \cup {"explicit"}]

Process ==
  [pc : Down \cup Listening \cup {"load", "reload", "create", "write", "bind"},
   args : Launches \cup {NoArguments}, item : Items,
   psk : Keys \cup {"absent"}, id : ServerIds \cup {"absent", "explicit"},
   staged : Keys \cup {"absent"}, qr_enabled : BOOLEAN,
   peer : Offers \cup {NoOffer}]

(* Files hold nothing, an unfinished write or a value; the panel shows no   *)
(* offer or a complete one (pairing_uri is called with a loaded key).       *)
LifeTypeOK ==
  /\ file \in [Items -> {"absent", "partial"} \cup Keys \cup ServerIds]
  /\ \A i \in Items : file[i] \in {"absent", "partial"} \cup Values(i)
  /\ used \subseteq Keys \cup ServerIds
  /\ proc \in [Processes -> Process]
  /\ screen \in Offers \cup {NoOffer}
  /\ scanned \subseteq Offers
  /\ revoked \subseteq Keys /\ overtaken \subseteq Processes

(* A receiver serves with the key and the identity it would load if it were *)
(* restarted now, whatever was stopped before it and whoever else is        *)
(* starting (load_or_create_psk, load_or_create_server_id, new_pairing).    *)
(* The exception is a process that had loaded its key when another one      *)
(* rotated it.                                                              *)
ServesWhatIsStored ==
  \A p \in Processes :
    proc[p].pc \in {"show", "idle", "serving"} /\ p \notin overtaken =>
      /\ UsesKey(p) => file["psk"] = proc[p].psk
      /\ ~proc[p].args.server_id => file["server-id"] = proc[p].id

(* A pairing survives disconnects, reconnects and restarts: an offer a      *)
(* producer once scanned still names the receiver's key and identity unless *)
(* NEW PAIR has replaced the key (Psk::load, load_server_id).               *)
PairingSurvives ==
  \A p \in Processes, o \in scanned :
    /\ proc[p].pc = "idle" /\ p \notin overtaken /\ UsesKey(p)
    /\ o.security = "psk" /\ o.psk \notin revoked
    => /\ o.psk = proc[p].psk
       /\ {o.server, proc[p].id} \subseteq ServerIds => o.server = proc[p].id

(* Once NEW PAIR has stored a replacement, no producer is served under the  *)
(* replaced key, not even after a stop before the replacement was installed *)
(* or shown (new_pairing, serve_stream).                                    *)
RevokedNeverServed ==
  \A p \in Processes :
    proc[p].pc = "serving" /\ p \notin overtaken =>
      proc[p].peer.psk \notin revoked

(* While a receiver that shows its QR waits for a producer, the QR on the   *)
(* panel is the offer it accepts (show_pairing_qr after main, new_pairing   *)
(* and every connection).                                                   *)
QrIsCurrent ==
  \A p \in Processes :
    proc[p].pc = "idle" /\ proc[p].qr_enabled =>
      screen = Offer(p) /\ Accepts(p, screen)

(* A started NEW PAIR is completed: a QR with a key that was never shown    *)
(* before appears, unless the receiver is stopped (new_pairing) or the keys *)
(* of the model run out.                                                    *)
NewPairCompletes ==
  \A p \in Processes :
    proc[p].pc = "rotate" /\ Fresh("psk") # {}
      ~> \/ proc[p].pc \in Down
         \/ proc[p].pc = "idle" /\ screen = Offer(p) /\ screen.psk \notin revoked
================================================================================
