--------------------------- MODULE PairingLifeProofs ---------------------------
(***************************************************************************)
(* Proofs about the life of a pairing, for any number of receiver          *)
(* processes, keys and identities and any command lines.                   *)
(***************************************************************************)
EXTENDS PairingLife, TLAPS

--------------------------------------------------------------------------------
(* The inductive invariant.  Its first part is about the record r of one    *)
(* process.                                                                 *)

\* The steps at which start-up is busy with one of the two files.
Starting == {"load", "reload", "create", "write"}

\* The process is writing the file of item i.
Writing(r, i) == r.pc = "write" /\ r.item = i

\* What a process has in memory at each step of run().
ShapeOf(r) ==
  /\ r.pc \in Down => r.psk = "absent" /\ r.id = "absent"
  /\ r.pc \notin Down => r.args \in Launches
  /\ r.pc \in Starting /\ r.item = "psk" => r.args.security # "plaintext"
  /\ r.pc \in Starting /\ r.item = "server-id" =>
       ~r.args.server_id /\ (r.args.security # "plaintext" => r.psk \in Keys)
  /\ r.pc = "write" => Held(r) \in Values(r.item)
  /\ r.pc \in Listening \cup {"bind"} =>
       /\ r.args.security # "plaintext" => r.psk \in Keys
       /\ r.id \in ServerIds \cup {"explicit"}
  /\ r.args.security = "plaintext" => r.psk = "absent"
  /\ r.pc \in {"rotate", "install"} => r.args.security # "plaintext"
  /\ r.pc = "install" => r.staged \in Keys
  /\ r.pc \notin Down => (r.args.server_id <=> r.id = "explicit")
  /\ r.pc \in Starting \cup {"bind"} => ~r.qr_enabled
  /\ r.pc = "serving" =>
       /\ r.args.security # "plaintext" => r.peer.psk = r.psk
       /\ r.args.security = "plaintext" => r.peer.psk = "absent"

\* The key in memory is the one on file or one that NEW PAIR has replaced, and
\* the one on file unless another process did that; so is a key that is about
\* to be installed.
KeyOf(p, r) ==
  /\ {r.psk, r.staged} \cap Keys \subseteq used
  /\ Writing(r, "psk") => r.psk \notin revoked
  /\ r.psk \in Keys /\ ~Writing(r, "psk") =>
       /\ file["psk"] \in Keys
       /\ file["psk"] = r.psk \/ r.psk \in revoked
       /\ r.pc # "install" /\ p \notin overtaken => file["psk"] = r.psk
  /\ r.pc = "install" =>
       /\ file["psk"] = r.staged \/ r.staged \in revoked
       /\ p \notin overtaken => file["psk"] = r.staged

\* The identity in memory is the one on file.
IdOf(r) ==
  r.id \in ServerIds /\ ~Writing(r, "server-id") => file["server-id"] = r.id

Memory ==
  \A p \in Processes :
    ShapeOf(proc[p]) /\ KeyOf(p, proc[p]) /\ IdOf(proc[p])

\* A file being written is a partial one, and it has one writer.
OneWriter ==
  \A p \in Processes : proc[p].pc = "write" =>
    /\ file[proc[p].item] = "partial"
    /\ \A q \in Processes :
         proc[q].pc = "write" /\ proc[q].item = proc[p].item => q = p

\* The listening socket has one owner.
OneListener ==
  \A p, q \in Processes :
    proc[p].pc \in Listening /\ proc[q].pc \in Listening => p = q

\* The key on file is one that no NEW PAIR has replaced, and every key that was
\* ever stored was generated, so that a generated one is new.
KeyOnFile ==
  /\ file["psk"] \in Keys => file["psk"] \in used
  /\ file["psk"] \notin revoked
  /\ revoked \subseteq used

\* What an offer says is on file, or was until NEW PAIR.
Stands(o) ==
  /\ o.security = "psk" => o.psk = file["psk"] \/ o.psk \in revoked
  /\ o.server \in ServerIds => o.server = file["server-id"]

OffersStand ==
  /\ screen # NoOffer => Stands(screen)
  /\ \A o \in scanned : Stands(o)

LifeInv ==
  /\ LifeTypeOK /\ Memory
  /\ OneWriter /\ OneListener
  /\ KeyOnFile /\ OffersStand /\ QrIsCurrent

--------------------------------------------------------------------------------
(* Steps of one process.                                                    *)

\* Process p goes on as r and nothing but its own record is touched.
Becomes(p, r) ==
  /\ proc' = [proc EXCEPT ![p] = r]
  /\ UNCHANGED <<file, used, screen, scanned, revoked, overtaken>>

(* A step that changes one process and no file keeps the invariant if what  *)
(* that process now holds is in order, it starts no write, and it does not  *)
(* listen beside another one (most steps of run(), serve_stream and Stop).  *)
LEMMA BecomesKeeps ==
  ASSUME LifeInv, NEW p \in Processes, NEW r \in Process, Becomes(p, r),
         ShapeOf(r), KeyOf(p, r), IdOf(r),
         r.pc # "write",
         r.pc \in Listening =>
           \A q \in Processes \ {p} : proc[q].pc \notin Listening,
         r.pc = "idle" /\ r.qr_enabled =>
           proc[p].pc = "idle" /\ proc[p].qr_enabled /\ r.psk = proc[p].psk
             /\ r.id = proc[p].id /\ r.args = proc[p].args
  PROVE  LifeInv'
<1> USE DEF Becomes
<1>1. /\ proc'[p] = r
      /\ \A q \in Processes \ {p} : proc'[q] = proc[q]
  BY DEF LifeInv, LifeTypeOK
<1>2. LifeTypeOK'
  BY DEF LifeInv, LifeTypeOK
<1>3. Memory'
  <2> SUFFICES ASSUME NEW q \in Processes
               PROVE  (ShapeOf(proc[q]) /\ KeyOf(q, proc[q])
                         /\ IdOf(proc[q]))'
    BY DEF Memory
  <2>1. CASE q = p
    BY <1>1, <2>1 DEF KeyOf, IdOf
  <2>2. CASE q # p
    BY <1>1, <2>2 DEF LifeInv, Memory, KeyOf, IdOf
  <2> QED BY <2>1, <2>2
<1>4. OneWriter'
  BY <1>1 DEF LifeInv, OneWriter
<1>5. OneListener'
  BY <1>1 DEF LifeInv, OneListener
<1>6. KeyOnFile' /\ OffersStand'
  BY DEF LifeInv, KeyOnFile, OffersStand, Stands
<1>7. QrIsCurrent'
  BY <1>1 DEF LifeInv, QrIsCurrent, Offer, Accepts, UsesKey
<1> QED BY <1>2, <1>3, <1>4, <1>5, <1>6, <1>7 DEF LifeInv

(* A process that has ended holds nothing (Ended).                          *)
LEMMA EndedInOrder ==
  ASSUME NEW reason \in Down, NEW p
  PROVE  /\ Ended(reason) \in Process /\ Ended(reason).pc = reason
         /\ ShapeOf(Ended(reason)) /\ KeyOf(p, Ended(reason)) /\ IdOf(Ended(reason))
  BY PairingAssumption
  DEF Ended, Process, Down, Listening, Starting, ShapeOf, KeyOf, IdOf, Writing,
      NoArguments, NoOffer, Items, Offers

(* A process that stops keeps the invariant, wherever it was (Stop).        *)
LEMMA EndedKeeps ==
  ASSUME LifeInv, NEW p \in Processes, NEW reason \in Down,
         Becomes(p, Ended(reason))
  PROVE  LifeInv'
<1>1. /\ Ended(reason) \in Process /\ Ended(reason).pc = reason
      /\ ShapeOf(Ended(reason)) /\ KeyOf(p, Ended(reason))
      /\ IdOf(Ended(reason))
  BY EndedInOrder
<1> QED BY <1>1, BecomesKeeps DEF Down, Listening

\* Memory r is ready for what comes with or after item i of start-up.
ReadyFor(i, r) ==
  /\ r.args \in Launches /\ r.pc # "install" /\ ~r.qr_enabled
  /\ r.args.security = "plaintext" => r.psk = "absent"
  /\ i # "psk" /\ r.args.security # "plaintext" => r.psk \in Keys
  /\ i = "bind" => r.id \in ServerIds \cup {"explicit"}
  /\ r.args.server_id <=> r.id = "explicit"

\* What process p holds in memory r has been read from the files.
Read(p, r) ==
  /\ {r.psk, r.staged} \cap Keys \subseteq used
  /\ r.psk \in Keys =>
       /\ file["psk"] \in Keys
       /\ file["psk"] = r.psk \/ r.psk \in revoked
       /\ p \notin overtaken => file["psk"] = r.psk
  /\ r.id \in ServerIds => file["server-id"] = r.id

(* Going on with start-up leaves what is held alone and in order (Toward).  *)
LEMMA TowardInOrder ==
  ASSUME NEW i \in Items \cup {"bind"}, NEW r \in Process, ReadyFor(i, r)
  PROVE  /\ Toward(i, r) \in Process
         /\ Toward(i, r).pc \in {"load", "bind"}
         /\ Toward(i, r).psk = r.psk /\ Toward(i, r).staged = r.staged
         /\ Toward(i, r).id = r.id
         /\ ShapeOf(Toward(i, r))
<1> DEFINE t == Toward(i, r)
<1>1. /\ t \in Process /\ t.pc \in {"load", "bind"} /\ t.args = r.args
      /\ t.psk = r.psk /\ t.id = r.id /\ t.staged = r.staged
      /\ t.qr_enabled = r.qr_enabled
      /\ t.pc = "load" /\ t.item = "psk" => t.args.security # "plaintext"
      /\ t.pc = "load" /\ t.item = "server-id" =>
           ~t.args.server_id /\ (i # "psk" \/ t.args.security = "plaintext")
      /\ t.pc = "bind" => i # "psk" \/ t.args.security = "plaintext"
      /\ t.pc = "bind" => i = "bind" \/ t.args.server_id
  BY DEF Toward, Process, Items
<1> HIDE DEF t
<1>2. ShapeOf(t)
  BY <1>1 DEF ReadyFor, ShapeOf, Down, Listening, Starting, Process, Items
<1> QED BY <1>1, <1>2 DEF t

(* A process that goes on with start-up, having read what it holds, keeps   *)
(* the invariant (AfterItem).                                               *)
LEMMA TowardKeeps ==
  ASSUME LifeInv, NEW p \in Processes, NEW i \in Items \cup {"bind"},
         NEW r \in Process, ReadyFor(i, r), Read(p, r),
         Becomes(p, Toward(i, r))
  PROVE  LifeInv'
<1> DEFINE t == Toward(i, r)
<1>1. /\ t \in Process /\ t.pc \in {"load", "bind"} /\ ShapeOf(t)
      /\ t.psk = r.psk /\ t.staged = r.staged /\ t.id = r.id
  BY TowardInOrder
<1> HIDE DEF t
<1>2. KeyOf(p, t) /\ IdOf(t)
  BY <1>1 DEF Read, KeyOf, IdOf, Writing
<1> QED BY <1>1, <1>2, BecomesKeeps DEF t, Listening

(* The operator starts a receiver (Launch).                                 *)
LEMMA LaunchKeeps ==
  ASSUME LifeInv, NEW p \in Processes, NEW a \in Launches, Launch(p, a)
  PROVE  LifeInv'
<1> DEFINE r0 == [Ended("down") EXCEPT
                    !.args = a, !.id = IF a.server_id THEN "explicit" ELSE "absent"]
           r  == Toward("psk", r0)
<1>1. r0 \in Process /\ a \in Arguments
  BY PairingAssumption
  DEF Ended, Process, Down, Items, NoArguments, NoOffer
<1>2. /\ r \in Process /\ r.pc \in {"load", "bind"}
      /\ r.psk = "absent" /\ r.staged = "absent"
      /\ ShapeOf(r) /\ KeyOf(p, r) /\ IdOf(r)
  <2>1. /\ r0.args = a /\ r0.pc = "down" /\ r0.psk = "absent" /\ ~r0.qr_enabled
        /\ r0.staged = "absent"
        /\ r0.id = IF a.server_id THEN "explicit" ELSE "absent"
    BY DEF Ended
  <2> HIDE DEF r0
  <2>2. ReadyFor("psk", r0)
    BY <1>1, <2>1, PairingAssumption DEF ReadyFor, Arguments
  <2>3. /\ r \in Process /\ r.pc \in {"load", "bind"} /\ ShapeOf(r)
        /\ r.psk = r0.psk /\ r.staged = r0.staged /\ r.id = r0.id
    BY <1>1, <2>2, TowardInOrder DEF Items
  <2> HIDE DEF r
  <2> QED BY <2>1, <2>3, PairingAssumption DEF KeyOf, IdOf, Writing
<1>3. /\ proc'[p] = r /\ proc[p].pc \in Down
      /\ \A q \in Processes \ {p} : proc'[q] = proc[q]
  BY DEF LifeInv, LifeTypeOK, Launch
<1>4. LifeTypeOK'
  BY <1>2 DEF LifeInv, LifeTypeOK, Launch
<1>5. Memory'
  BY <1>2, <1>3, PairingAssumption DEF LifeInv, Memory, KeyOf, IdOf, Launch
<1>6. OneWriter' /\ OneListener'
  BY <1>2, <1>3 DEF LifeInv, OneWriter, OneListener, Listening, Launch
<1>7. KeyOnFile' /\ OffersStand'
  BY DEF LifeInv, KeyOnFile, OffersStand, Stands, Launch
<1>8. QrIsCurrent'
  BY <1>2, <1>3 DEF LifeInv, QrIsCurrent, Offer, Accepts, UsesKey, Launch
<1> QED BY <1>4, <1>5, <1>6, <1>7, <1>8 DEF LifeInv

(* A file is loaded, or is missing or unfinished (Load).                    *)
LEMMA LoadKeeps ==
  ASSUME LifeInv, NEW p \in Processes, Load(p)
  PROVE  LifeInv'
<1> DEFINE r == proc[p]
           f == file[r.item]
           h == Holding(r, f)
<1>1. /\ r \in Process /\ ShapeOf(r) /\ KeyOf(p, r) /\ IdOf(r)
      /\ r.pc \in {"load", "reload"}
  BY DEF LifeInv, LifeTypeOK, Memory, Load
<1>2. CASE f = "partial" \/ (f = "absent" /\ ~(r.pc = "load" /\ Creates(r)))
  <2>1. \E reason \in Down : Becomes(p, Ended(reason))
    BY <1>2 DEF Load, Becomes, Down
  <2> QED BY <2>1, EndedKeeps
<1>3. CASE f = "absent" /\ r.pc = "load" /\ Creates(r)
  <2>1. Becomes(p, [r EXCEPT !.pc = "create"])
    BY <1>3 DEF Load, Becomes
  <2> QED
    BY <1>1, <2>1, BecomesKeeps
    DEF Process, ShapeOf, KeyOf, IdOf, Writing, Starting, Down, Listening, Held
<1>4. CASE f \notin {"absent", "partial"}
  <2>1. Becomes(p, AfterItem(h))
    BY <1>4 DEF Load, Becomes
  <2>2. f \in Values(r.item) /\ r.item \in Items
    BY <1>1, <1>4 DEF LifeInv, LifeTypeOK, Process
  <2>3. CASE r.item = "psk"
    <3>1. /\ h = [r EXCEPT !.psk = f] /\ f \in Keys /\ f = file["psk"]
          /\ AfterItem(h) = Toward("server-id", h)
      BY <1>1, <2>2, <2>3 DEF Holding, AfterItem, Values, Process
    <3>2. /\ h \in Process /\ h.args = r.args /\ h.pc = r.pc /\ h.psk = f
          /\ h.id = r.id /\ h.staged = r.staged /\ h.qr_enabled = r.qr_enabled
      BY <1>1, <3>1 DEF Process
    <3>3. f \in used
      BY <3>1 DEF LifeInv, KeyOnFile
    <3> HIDE DEF h
    <3>4. ReadyFor("server-id", h) /\ Read(p, h)
      BY <1>1, <2>3, <3>1, <3>2, <3>3
      DEF ReadyFor, Read, ShapeOf, KeyOf, IdOf, Writing, Starting, Down
    <3> QED BY <2>1, <3>1, <3>2, <3>4, TowardKeeps DEF Items
  <2>4. CASE r.item = "server-id"
    <3>1. /\ h = [r EXCEPT !.id = f] /\ f \in ServerIds /\ f = file["server-id"]
          /\ AfterItem(h) = Toward("bind", h)
      BY <1>1, <2>2, <2>4 DEF Holding, AfterItem, Values, Process
    <3>2. /\ h \in Process /\ h.args = r.args /\ h.pc = r.pc /\ h.psk = r.psk
          /\ h.id = f /\ h.staged = r.staged /\ h.qr_enabled = r.qr_enabled
      BY <1>1, <3>1 DEF Process
    <3>3. f # "explicit"
      BY <3>1, PairingAssumption
    <3> HIDE DEF h
    <3>4. ReadyFor("bind", h) /\ Read(p, h)
      BY <1>1, <2>4, <3>1, <3>2, <3>3
      DEF ReadyFor, Read, ShapeOf, KeyOf, IdOf, Writing, Starting, Down
    <3> QED BY <2>1, <3>1, <3>2, <3>4, TowardKeeps DEF Items
  <2> QED BY <2>2, <2>3, <2>4 DEF Items
<1> QED BY <1>2, <1>3, <1>4

(* A file that holds no value is one that nobody has read: the key or the   *)
(* identity is only with the process that writes it, and an offer with it   *)
(* is one that NEW PAIR has revoked (store_new, store_server_id).           *)
LEMMA NobodyHolds ==
  ASSUME LifeInv, NEW i \in Items, file[i] \notin Values(i)
  PROVE  /\ \A q \in Processes :
              /\ i = "psk" /\ proc[q].psk \in Keys => Writing(proc[q], "psk")
              /\ i = "server-id" /\ proc[q].id \in ServerIds =>
                   Writing(proc[q], "server-id")
         /\ \A o \in Offers :
              Stands(o) => /\ i = "psk" /\ o.security = "psk" => o.psk \in revoked
                           /\ i = "server-id" => o.server \notin ServerIds
  BY DEF LifeInv, Memory, KeyOf, IdOf, Values, Items, Stands, Offers

\* Process p goes on as r and the file of item i gets contents v.
Stores(p, r, i, v) ==
  /\ proc' = [proc EXCEPT ![p] = r]
  /\ file' = [file EXCEPT ![i] = v]
  /\ UNCHANGED <<screen, scanned, revoked, overtaken>>

(* A step of start-up that changes a file keeps the invariant if the file   *)
(* held no value before and the process is its only writer (Create, Write,  *)
(* WriteFails).                                                             *)
LEMMA StoresKeeps ==
  ASSUME LifeInv, NEW p \in Processes, NEW r \in Process, NEW i \in Items,
         NEW v \in {"absent", "partial"} \cup Values(i),
         Stores(p, r, i, v), used \subseteq used',
         used' \subseteq Keys \cup ServerIds,
         file[i] \notin Values(i),
         \A q \in Processes \ {p} : ~Writing(proc[q], i),
         ShapeOf(r), KeyOf(p, r)', IdOf(r)', r.pc \notin Listening,
         r.pc = "write" => r.item = i /\ v = "partial",
         i = "psk" /\ v \in Keys => v \in used' /\ v \notin revoked
  PROVE  LifeInv'
<1> USE DEF Stores
<1>1. /\ proc'[p] = r
      /\ \A q \in Processes \ {p} : proc'[q] = proc[q]
      /\ file'[i] = v /\ \A j \in Items \ {i} : file'[j] = file[j]
  BY DEF LifeInv, LifeTypeOK
<1>2. LifeTypeOK'
  BY <1>1 DEF LifeInv, LifeTypeOK, Values
<1>3. /\ \A q \in Processes :
           /\ i = "psk" /\ proc[q].psk \in Keys => Writing(proc[q], "psk")
           /\ i = "server-id" /\ proc[q].id \in ServerIds =>
                Writing(proc[q], "server-id")
      /\ \A o \in Offers :
           Stands(o) => /\ i = "psk" /\ o.security = "psk" => o.psk \in revoked
                        /\ i = "server-id" => o.server \notin ServerIds
  BY NobodyHolds
<1>4. Memory'
  <2> SUFFICES ASSUME NEW q \in Processes
               PROVE  (ShapeOf(proc[q]) /\ KeyOf(q, proc[q])
                         /\ IdOf(proc[q]))'
    BY DEF Memory
  <2>1. CASE q = p
    BY <1>1, <2>1 DEF KeyOf, IdOf
  <2>2. CASE q # p
    <3>1. /\ proc'[q] = proc[q] /\ ShapeOf(proc[q]) /\ KeyOf(q, proc[q])
          /\ IdOf(proc[q]) /\ ~Writing(proc[q], i)
      BY <1>1, <2>2 DEF LifeInv, Memory
    <3>2. KeyOf(q, proc[q])'
      <4>1. CASE i = "psk"
        BY <1>1, <1>3, <3>1, <4>1 DEF KeyOf, ShapeOf, Listening
      <4>2. CASE i # "psk"
        BY <1>1, <3>1, <4>2 DEF KeyOf, Items
      <4> QED BY <4>1, <4>2
    <3>3. IdOf(proc[q])'
      BY <1>1, <1>3, <3>1 DEF IdOf, Items
    <3> QED BY <3>1, <3>2, <3>3
  <2> QED BY <2>1, <2>2
<1>5. OneWriter'
  BY <1>1 DEF LifeInv, LifeTypeOK, Process, OneWriter, Writing
<1>6. OneListener'
  BY <1>1 DEF LifeInv, OneListener
<1>7. KeyOnFile'
  BY <1>1, PairingAssumption DEF LifeInv, LifeTypeOK, KeyOnFile, Items, Values
<1>8. OffersStand'
  BY <1>1, <1>3 DEF LifeInv, LifeTypeOK, OffersStand, Stands, Items, Offers, NoOffer
<1>9. QrIsCurrent'
  BY <1>1 DEF LifeInv, QrIsCurrent, Offer, Accepts, UsesKey, Listening
<1> QED BY <1>2, <1>4, <1>5, <1>6, <1>7, <1>8, <1>9 DEF LifeInv

(* A file is created, or another process was faster (Create).               *)
LEMMA CreateKeeps ==
  ASSUME LifeInv, NEW p \in Processes, Create(p)
  PROVE  LifeInv'
<1> PICK r : r = proc[p]
  OBVIOUS
<1>1. /\ r \in Process /\ ShapeOf(r) /\ KeyOf(p, r) /\ IdOf(r)
      /\ r.pc = "create" /\ r.item \in Items
  BY DEF LifeInv, LifeTypeOK, Memory, Create, Process
<1>2. CASE Exists(r.item) /\ proc' = [proc EXCEPT ![p].pc = "reload"]
             /\ UNCHANGED <<file, used>>
  <2>1. Becomes(p, [r EXCEPT !.pc = "reload"])
    BY <1>2 DEF Create, Becomes
  <2> QED
    BY <1>1, <2>1, BecomesKeeps
    DEF Process, ShapeOf, KeyOf, IdOf, Writing, Starting, Down, Listening, Held
<1>3. CASE /\ ~Exists(r.item) /\ Fresh(r.item) # {}
           /\ file' = [file EXCEPT ![r.item] = "partial"]
           /\ used' = used \cup {generate(r.item)}
           /\ proc' = [proc EXCEPT
                ![p] = [Holding(r, generate(r.item)) EXCEPT !.pc = "write"]]
  <2> PICK g : g = generate(r.item)
    OBVIOUS
  <2>1. g \in Values(r.item) /\ g \notin used
    BY <1>3 DEF generate, Fresh
  <2>2. file[r.item] = "absent" /\ "absent" \notin Values(r.item)
    BY <1>1, <1>3, PairingAssumption DEF Exists, Values
  <2> PICK w : w = [Holding(r, g) EXCEPT !.pc = "write"]
    OBVIOUS
  <2>3. /\ w \in Process /\ w.pc = "write" /\ w.item = r.item
        /\ w.args = r.args /\ w.staged = r.staged
        /\ w.qr_enabled = r.qr_enabled
        /\ Held(w) = g
        /\ r.item = "psk" => w.psk = g /\ w.id = r.id
        /\ r.item = "server-id" => w.psk = r.psk /\ w.id = g
    BY <1>1, <2>1 DEF Process, Holding, Held, Values, Items
  <2>4. /\ ~(r.item = "psk" /\ r.psk \in Keys)
        /\ \A q \in Processes : ~Writing(proc[q], r.item)
    BY <1>1, <2>2, NobodyHolds DEF LifeInv, OneWriter, Writing
  <2>5. ShapeOf(w)
    BY <1>1, <2>1, <2>3, PairingAssumption
    DEF ShapeOf, Down, Starting, Listening, Values, Items
  <2>6. used' = used \cup {g} /\ UNCHANGED <<revoked, overtaken>>
    BY <1>3 DEF Create
  <2>7. file' = [file EXCEPT ![r.item] = "partial"]
    BY <1>3
  <2>8. KeyOf(p, w)'
    <3>1. CASE r.item = "psk"
      <4>1. g \notin revoked
        BY <2>1 DEF LifeInv, KeyOnFile
      <4> QED
        BY <1>1, <2>3, <2>6, <3>1, <4>1 DEF KeyOf, Writing
    <3>2. CASE r.item = "server-id"
      <4>1. file'["psk"] = file["psk"]
        BY <2>7, <3>2 DEF LifeInv, LifeTypeOK, Items
      <4> QED
        BY <1>1, <2>3, <2>6, <3>2, <4>1 DEF KeyOf, Writing
    <3> QED BY <1>1, <3>1, <3>2 DEF Items
  <2>9. IdOf(w)'
    <3>1. CASE r.item = "psk"
      <4>1. file'["server-id"] = file["server-id"]
        BY <2>7, <3>1 DEF LifeInv, LifeTypeOK, Items
      <4> QED
        BY <1>1, <2>3, <3>1, <4>1 DEF IdOf, Writing
    <3>2. CASE r.item = "server-id"
      BY <2>3, <3>2 DEF IdOf, Writing
    <3> QED BY <1>1, <3>1, <3>2 DEF Items
  <2>10. Stores(p, w, r.item, "partial")
    BY <1>3 DEF Create, Stores
  <2>11. /\ used \subseteq used' /\ used' \subseteq Keys \cup ServerIds
         /\ w.pc \notin Listening /\ "partial" \notin Keys
    BY <1>1, <2>1, <2>3, <2>6, PairingAssumption
    DEF LifeInv, LifeTypeOK, Values, Listening
  <2>12. /\ r.item \in Items /\ file[r.item] \notin Values(r.item)
         /\ w.pc = "write" => w.item = r.item
         /\ ~(r.item = "psk" /\ "partial" \in Keys)
    BY <1>1, <2>2, <2>3, <2>11
  <2> QED
    BY <2>3, <2>4, <2>5, <2>8, <2>9, <2>10, <2>11, <2>12, StoresKeeps
<1> QED BY <1>2, <1>3 DEF Create

(* The created file is written, and start-up goes on (Write).               *)
LEMMA WriteKeeps ==
  ASSUME LifeInv, NEW p \in Processes, Write(p)
  PROVE  LifeInv'
<1> PICK r : r = proc[p]
  OBVIOUS
<1> PICK t : t = AfterItem(r)
  OBVIOUS
<1> PICK v : v = Held(r)
  OBVIOUS
<1> PICK n : n = IF r.item = "psk" THEN "server-id" ELSE "bind"
  OBVIOUS
<1>1. /\ r \in Process /\ ShapeOf(r) /\ KeyOf(p, r) /\ IdOf(r)
      /\ r.pc = "write" /\ r.item \in Items /\ n \in Items \cup {"bind"}
      /\ t = Toward(n, r)
  BY DEF LifeInv, LifeTypeOK, Memory, Write, Process, AfterItem, Items
<1>2. Stores(p, t, r.item, v) /\ UNCHANGED <<used, revoked, overtaken>>
  BY DEF Write, Stores
<1>3. file[r.item] = "partial" /\ "partial" \notin Values(r.item)
  BY <1>1, PairingAssumption DEF LifeInv, OneWriter, Values
<1>4. /\ \A q \in Processes \ {p} : ~Writing(proc[q], r.item)
      /\ v \in Values(r.item)
  BY <1>1 DEF LifeInv, OneWriter, Writing, ShapeOf
<1>5. /\ file'[r.item] = v
      /\ \A j \in Items \ {r.item} : file'[j] = file[j]
  BY <1>1, <1>2 DEF LifeInv, LifeTypeOK, Stores
<1>6. ReadyFor(n, r) /\ Read(p, r)'
  <2>1. CASE r.item = "psk"
    <3>1. r.psk = v /\ v \in Keys /\ file'["psk"] = v /\ n = "server-id"
            /\ file'["server-id"] = file["server-id"]
      BY <1>4, <1>5, <2>1 DEF Held, Values, Items
    <3> QED
      BY <1>1, <1>2, <2>1, <3>1
      DEF ReadyFor, Read, ShapeOf, KeyOf, IdOf, Writing, Starting, Down
  <2>2. CASE r.item = "server-id"
    <3>1. r.id = v /\ v \in ServerIds /\ file'["server-id"] = v /\ n = "bind"
            /\ file'["psk"] = file["psk"]
      BY <1>1, <1>4, <1>5, <2>2 DEF Held, Values, Items
    <3> QED
      BY <1>1, <1>2, <2>2, <3>1
      DEF ReadyFor, Read, ShapeOf, KeyOf, IdOf, Writing, Starting, Down
  <2> QED BY <1>1, <2>1, <2>2 DEF Items
<1>7. /\ t \in Process /\ t.pc \in {"load", "bind"} /\ ShapeOf(t)
      /\ t.psk = r.psk /\ t.staged = r.staged /\ t.id = r.id
  BY <1>1, <1>6, TowardInOrder
<1>8. KeyOf(p, t)' /\ IdOf(t)'
  BY <1>6, <1>7 DEF Read, KeyOf, IdOf, Writing
<1>9. r.item = "psk" /\ v \in Keys => v \in used' /\ v \notin revoked
  BY <1>1, <1>2 DEF KeyOf, Held, Writing
<1> QED
  BY <1>1, <1>2, <1>3, <1>4, <1>7, <1>8, <1>9, StoresKeeps
  DEF LifeInv, LifeTypeOK, Listening

(* The key file that could not be written is removed (store_new).           *)
LEMMA WriteFailsKeeps ==
  ASSUME LifeInv, NEW p \in Processes, WriteFails(p)
  PROVE  LifeInv'
<1> PICK e : e = Ended("down")
  OBVIOUS
<1>1. Stores(p, e, "psk", "absent") /\ UNCHANGED used
  BY DEF WriteFails, Stores
<1>2. file["psk"] \notin Values("psk") /\ "absent" \notin Keys
  BY PairingAssumption DEF LifeInv, OneWriter, WriteFails, Values
<1>3. \A q \in Processes \ {p} : ~Writing(proc[q], "psk")
  BY DEF LifeInv, OneWriter, WriteFails, Writing
<1>4. /\ e \in Process /\ ShapeOf(e) /\ e.pc = "down" /\ e.psk = "absent"
      /\ e.staged = "absent" /\ e.id = "absent"
  BY EndedInOrder DEF Ended, Down
<1>5. KeyOf(p, e)' /\ IdOf(e)'
  BY <1>2, <1>4, PairingAssumption DEF KeyOf, IdOf, Writing
<1> QED
  BY <1>1, <1>2, <1>3, <1>4, <1>5, StoresKeeps
  DEF LifeInv, LifeTypeOK, Listening, Items

(* The socket is bound once (ReceiverServer::bind).                         *)
LEMMA BindKeeps ==
  ASSUME LifeInv, NEW p \in Processes, Bind(p)
  PROVE  LifeInv'
<1>1. /\ proc[p] \in Process /\ proc[p].pc = "bind"
      /\ ShapeOf(proc[p]) /\ KeyOf(p, proc[p]) /\ IdOf(proc[p])
  BY DEF LifeInv, LifeTypeOK, Memory, Bind
<1>2. CASE \E q \in Processes : proc[q].pc \in Listening
  BY <1>2, EndedKeeps DEF Bind, Becomes, Down
<1>3. CASE \A q \in Processes : proc[q].pc \notin Listening
  <2> DEFINE s == IF proc[p].args.pairing_qr THEN "show" ELSE "idle"
             r == [proc[p] EXCEPT !.pc = s]
  <2>1. Becomes(p, r) /\ s \in {"show", "idle"}
    BY <1>3 DEF Bind, Becomes
  <2> HIDE DEF s
  <2>2. r \in Process
    BY <1>1, <2>1 DEF Process, Listening
  <2>3. ShapeOf(r) /\ KeyOf(p, r) /\ IdOf(r)
    BY <1>1, <2>1
    DEF Process, ShapeOf, KeyOf, IdOf, Writing, Starting, Down, Listening
  <2>4. ~r.qr_enabled /\ r.pc # "write"
    BY <1>1, <2>1 DEF ShapeOf, Process, Starting
  <2> QED BY <1>3, <2>1, <2>2, <2>3, <2>4, BecomesKeeps
<1> QED BY <1>2, <1>3

(* A step that only moves a listening process on, with what it holds, keeps *)
(* the invariant unless it comes to wait beside a QR it did not show        *)
(* (new_pairing, AfterSession).                                             *)
LEMMA MovesKeeps ==
  ASSUME LifeInv, NEW p \in Processes, NEW s \in Listening \ {"install"},
         NEW o \in Offers \cup {NoOffer},
         proc[p].pc \in Listening \ {"install"},
         s = "serving" =>
           /\ proc[p].args.security # "plaintext" => o.psk = proc[p].psk
           /\ proc[p].args.security = "plaintext" => o.psk = "absent",
         s = "rotate" => proc[p].args.security # "plaintext",
         s = "idle" => ~proc[p].qr_enabled,
         Becomes(p, [proc[p] EXCEPT !.pc = s, !.peer = o])
  PROVE  LifeInv'
<1> DEFINE r == [proc[p] EXCEPT !.pc = s, !.peer = o]
<1>1. /\ proc[p] \in Process
      /\ ShapeOf(proc[p]) /\ KeyOf(p, proc[p]) /\ IdOf(proc[p])
  BY DEF LifeInv, LifeTypeOK, Memory
<1>2. /\ r \in Process /\ r.pc = s /\ r.peer = o /\ r.psk = proc[p].psk
      /\ r.id = proc[p].id /\ r.args = proc[p].args
      /\ r.staged = proc[p].staged /\ r.qr_enabled = proc[p].qr_enabled
  BY <1>1 DEF Process
<1>3. /\ s \notin Down /\ s \notin Starting /\ s \notin {"bind", "write", "install"}
      /\ proc[p].pc \notin Down /\ proc[p].pc # "write"
  BY DEF Listening, Starting, Down
<1>4. Becomes(p, r)
  OBVIOUS
<1> HIDE DEF r
<1>5. ShapeOf(r)
  BY <1>1, <1>2, <1>3 DEF ShapeOf
<1>6. KeyOf(p, r) /\ IdOf(r)
  BY <1>1, <1>2, <1>3 DEF KeyOf, IdOf, Writing
<1>7. \A q \in Processes \ {p} : proc[q].pc \notin Listening
  BY DEF LifeInv, OneListener
<1> QED BY <1>2, <1>3, <1>4, <1>5, <1>6, <1>7, BecomesKeeps

(* NEW PAIR ends the session and comes to rotate or to show (new_pairing).  *)
LEMMA NewPairingKeeps ==
  ASSUME LifeInv, NEW p \in Processes, new_pairing(p)
  PROVE  LifeInv'
<1> DEFINE s == IF UsesKey(p) THEN "rotate" ELSE "show"
<1>1. proc[p] \in Process
  BY DEF LifeInv, LifeTypeOK
<1>2. Becomes(p, [proc[p] EXCEPT !.pc = s, !.peer = NoOffer])
  BY <1>1 DEF new_pairing, Becomes, Process
<1>3. /\ s \in Listening \ {"install"} /\ proc[p].pc \in Listening \ {"install"}
      /\ s \notin {"serving", "idle"}
      /\ s = "rotate" => proc[p].args.security # "plaintext"
  BY DEF new_pairing, Listening, UsesKey
<1> QED BY <1>2, <1>3, MovesKeeps

(* The end of a connection, or one that never came to be (AfterSession).    *)
LEMMA AfterSessionKeeps ==
  ASSUME LifeInv, NEW p \in Processes, proc[p].pc \in {"idle", "serving"},
         Becomes(p, AfterSession(proc[p]))
  PROVE  LifeInv'
<1> DEFINE s == IF proc[p].qr_enabled THEN "show" ELSE "idle"
<1>1. Becomes(p, [proc[p] EXCEPT !.pc = s, !.peer = NoOffer])
  <2>1. proc[p] \in Process
    BY DEF LifeInv, LifeTypeOK
  <2> QED BY <2>1 DEF AfterSession, Process
<1>2. /\ s \in Listening \ {"install"} /\ proc[p].pc \in Listening \ {"install"}
      /\ s \notin {"serving", "rotate"} /\ s = "idle" => ~proc[p].qr_enabled
  BY DEF Listening
<1> QED BY <1>1, <1>2, MovesKeeps

(* A connection: with the receiver's own offer, or none (Connect).          *)
LEMMA ConnectKeeps ==
  ASSUME LifeInv, NEW p \in Processes, NEW o \in scanned, Connect(p, o)
  PROVE  LifeInv'
<1>1. CASE Accepts(p, o) /\ proc' = [proc EXCEPT ![p].pc = "serving", ![p].peer = o]
  <2>1. proc[p] \in Process /\ o \in Offers
    BY DEF LifeInv, LifeTypeOK
  <2>2. Becomes(p, [proc[p] EXCEPT !.pc = "serving", !.peer = o])
    BY <1>1, <2>1 DEF Connect, Becomes, Process
  <2>3. /\ proc[p].args.security # "plaintext" => o.psk = proc[p].psk
        /\ proc[p].args.security = "plaintext" => o.psk = "absent"
    BY <1>1, <2>1 DEF Accepts, UsesKey, Offer, Offers
  <2>4. proc[p].pc \in Listening \ {"install"} /\ "serving" \in Listening \ {"install"}
    BY DEF Connect, Listening
  <2> QED BY <2>1, <2>2, <2>3, <2>4, MovesKeeps
<1>2. CASE proc' = [proc EXCEPT ![p] = AfterSession(@)]
  BY <1>2, AfterSessionKeeps DEF Connect, Becomes
<1> QED BY <1>1, <1>2 DEF Connect

(* The QR is shown and is the receiver's own offer (show_pairing_qr).       *)
LEMMA ShowKeeps ==
  ASSUME LifeInv, NEW p \in Processes, show_pairing_qr(p)
  PROVE  LifeInv'
<1> DEFINE r == [proc[p] EXCEPT !.pc = "idle", !.qr_enabled = TRUE]
<1>1. /\ proc[p] \in Process /\ proc[p].pc = "show"
      /\ ShapeOf(proc[p]) /\ KeyOf(p, proc[p]) /\ IdOf(proc[p])
  BY DEF LifeInv, LifeTypeOK, Memory, show_pairing_qr
<1>2. /\ r \in Process /\ r.pc = "idle" /\ r.qr_enabled /\ r.psk = proc[p].psk
      /\ r.id = proc[p].id /\ r.args = proc[p].args /\ r.staged = proc[p].staged
  BY <1>1 DEF Process, Listening
<1>3. /\ proc' = [proc EXCEPT ![p] = r]
      /\ screen' = Offer(p)
      /\ UNCHANGED <<file, used, scanned, revoked, overtaken>>
  BY <1>1 DEF show_pairing_qr, Process
<1> HIDE DEF r
<1>4. proc'[p] = r /\ \A q \in Processes \ {p} : proc'[q] = proc[q]
  BY <1>3 DEF LifeInv, LifeTypeOK
<1>5. Offer(p) \in Offers /\ Stands(Offer(p))
  BY <1>1, PairingAssumption
  DEF Offer, Offers, Stands, UsesKey, ShapeOf, KeyOf, IdOf, Writing, Listening
<1>6. Offer(p)' = Offer(p)
  BY <1>2, <1>4 DEF Offer, UsesKey
<1>7. LifeTypeOK'
  BY <1>2, <1>3, <1>5 DEF LifeInv, LifeTypeOK
<1>8. Memory'
  <2>1. ShapeOf(r)
    BY <1>1, <1>2 DEF ShapeOf, Down, Starting, Listening
  <2>2. KeyOf(p, r) /\ IdOf(r)
    BY <1>1, <1>2 DEF KeyOf, IdOf, Writing
  <2> QED BY <1>3, <1>4, <2>1, <2>2 DEF LifeInv, Memory, KeyOf, IdOf
<1>9. OneWriter' /\ OneListener'
  BY <1>1, <1>2, <1>3, <1>4 DEF LifeInv, OneWriter, OneListener, Listening
<1>10. KeyOnFile' /\ OffersStand'
  BY <1>3, <1>5 DEF LifeInv, KeyOnFile, OffersStand, Stands
<1>11. QrIsCurrent'
  <2> SUFFICES ASSUME NEW q \in Processes, proc'[q].pc = "idle"
               PROVE  (screen = Offer(q) /\ Accepts(q, screen))'
    BY DEF QrIsCurrent
  <2>1. q = p
    BY <1>1, <1>4 DEF LifeInv, OneListener, Listening
  <2> QED BY <1>3, <1>6, <2>1 DEF Accepts, Offer
<1> QED BY <1>7, <1>8, <1>9, <1>10, <1>11 DEF LifeInv

(* NEW PAIR stores a replacement for the key (new_pairing, store_atomic):   *)
(* every key and offer there was is revoked, and whoever else has started   *)
(* is overtaken.                                                            *)
LEMMA RotateKeeps ==
  ASSUME LifeInv, NEW p \in Processes, Rotate(p)
  PROVE  LifeInv'
<1> PICK g : g = generate("psk")
  OBVIOUS
<1> PICK r : r = [proc[p] EXCEPT !.pc = "install", !.staged = g]
  OBVIOUS
<1>1. /\ proc[p] \in Process /\ proc[p].pc = "rotate"
      /\ ShapeOf(proc[p]) /\ KeyOf(p, proc[p]) /\ IdOf(proc[p])
  BY DEF LifeInv, LifeTypeOK, Memory, Rotate
<1>2. g \in Keys /\ g \notin used /\ used' = used \cup {g}
  BY DEF Rotate, generate, Fresh, Values
<1>3. /\ r \in Process /\ r.pc = "install" /\ r.staged = g
      /\ r.psk = proc[p].psk /\ r.id = proc[p].id /\ r.args = proc[p].args
      /\ r.qr_enabled = proc[p].qr_enabled
  BY <1>1, <1>2 DEF Process, Listening
<1>4. proc' = [proc EXCEPT ![p] = r]
  BY <1>1 DEF Rotate, Process
<1>5. proc'[p] = r /\ \A q \in Processes \ {p} : proc'[q] = proc[q]
  BY <1>4 DEF LifeInv, LifeTypeOK
<1>6. /\ file' = [file EXCEPT !["psk"] = g]
      /\ file'["psk"] = g /\ file'["server-id"] = file["server-id"]
  BY DEF Rotate, store_atomic, LifeInv, LifeTypeOK, Items
<1>7. file["psk"] \in Keys /\ proc[p].psk \in Keys
  BY <1>1 DEF ShapeOf, KeyOf, Writing, Listening
<1>8. /\ revoked' = revoked \cup {proc[p].psk, file["psk"]}
      /\ \A q \in Processes \ {p} : proc[q].pc \notin Down => q \in overtaken'
      /\ overtaken' \subseteq Processes
      /\ UNCHANGED <<screen, scanned>>
  BY <1>7 DEF Rotate, LifeInv, LifeTypeOK
<1>9. /\ \A q \in Processes : ~Writing(proc[q], "psk")
      /\ \A q \in Processes \ {p} : proc[q].pc \notin Listening
  BY <1>1, <1>7, PairingAssumption
  DEF LifeInv, OneWriter, OneListener, Writing, Listening
<1>10. LifeTypeOK'
  BY <1>2, <1>3, <1>4, <1>6, <1>7, <1>8
  DEF LifeInv, LifeTypeOK, Items, Values
<1>11. Memory'
  <2> SUFFICES ASSUME NEW q \in Processes
               PROVE  (ShapeOf(proc[q]) /\ KeyOf(q, proc[q])
                         /\ IdOf(proc[q]))'
    BY DEF Memory
  <2>1. CASE q = p
    <3>1. ShapeOf(r)
      BY <1>1, <1>2, <1>3 DEF ShapeOf, Down, Starting, Listening
    <3>2. KeyOf(p, r)' /\ IdOf(r)'
      BY <1>1, <1>2, <1>3, <1>6, <1>7, <1>8 DEF KeyOf, IdOf, Writing
    <3> QED BY <1>5, <2>1, <3>1, <3>2 DEF KeyOf, IdOf
  <2>2. CASE q # p
    <3>1. /\ proc'[q] = proc[q] /\ ShapeOf(proc[q]) /\ KeyOf(q, proc[q])
          /\ IdOf(proc[q]) /\ ~Writing(proc[q], "psk")
          /\ proc[q].pc # "install"
      BY <1>5, <1>9, <2>2 DEF LifeInv, Memory, Listening
    <3>2. proc[q].psk \in Keys => q \in overtaken'
      BY <1>8, <2>2, <3>1, PairingAssumption DEF ShapeOf
    <3>3. KeyOf(q, proc[q])'
      BY <1>2, <1>6, <1>8, <3>1, <3>2 DEF KeyOf
    <3> QED BY <1>6, <3>1, <3>3 DEF IdOf
  <2> QED BY <2>1, <2>2
<1>12. OneWriter' /\ OneListener'
  <2>1. \A q \in Processes : proc[q].item \in {"psk", "server-id"}
    BY DEF LifeInv, LifeTypeOK, Process, Items
  <2>2. \A q \in Processes : proc'[q].pc = "write" =>
          proc'[q] = proc[q] /\ proc[q].item = "server-id"
    BY <1>3, <1>5, <1>9, <2>1 DEF Writing
  <2>3. OneWriter'
    BY <1>6, <2>2 DEF LifeInv, OneWriter
  <2>4. OneListener'
    BY <1>5, <1>9 DEF OneListener
  <2> QED BY <2>3, <2>4
<1>13. KeyOnFile'
  BY <1>1, <1>2, <1>6, <1>7, <1>8 DEF LifeInv, KeyOnFile, KeyOf
<1>14. OffersStand'
  BY <1>6, <1>8 DEF LifeInv, OffersStand, Stands
<1>15. QrIsCurrent'
  <2>1. \A q \in Processes : proc'[q].pc # "idle"
    BY <1>3, <1>5, <1>9 DEF Listening
  <2> QED BY <2>1 DEF QrIsCurrent
<1> QED BY <1>10, <1>11, <1>12, <1>13, <1>14, <1>15 DEF LifeInv

(* The stored replacement is taken into use (Install).                      *)
LEMMA InstallKeeps ==
  ASSUME LifeInv, NEW p \in Processes, Install(p)
  PROVE  LifeInv'
<1> DEFINE r == [proc[p] EXCEPT !.psk = proc[p].staged, !.staged = "absent",
                                !.pc = "show"]
<1>1. /\ proc[p] \in Process /\ proc[p].pc = "install"
      /\ ShapeOf(proc[p]) /\ KeyOf(p, proc[p]) /\ IdOf(proc[p])
  BY DEF LifeInv, LifeTypeOK, Memory, Install
<1>2. /\ r \in Process /\ r.pc = "show" /\ r.staged = "absent"
      /\ r.psk = proc[p].staged /\ r.id = proc[p].id /\ r.args = proc[p].args
  BY <1>1 DEF Process, Listening
<1>3. Becomes(p, r)
  BY <1>1 DEF Install, AfterInstall, Becomes, Process
<1> HIDE DEF r
<1>4. ShapeOf(r)
  BY <1>1, <1>2 DEF ShapeOf, Down, Starting, Listening
<1>5. KeyOf(p, r) /\ IdOf(r)
  <2>1. proc[p].psk \in Keys /\ file["psk"] \in Keys
    BY <1>1 DEF ShapeOf, KeyOf, Writing, Listening
  <2> QED
    BY <1>1, <1>2, <2>1, PairingAssumption DEF KeyOf, IdOf, Writing
<1>6. \A q \in Processes \ {p} : proc[q].pc \notin Listening
  BY <1>1 DEF LifeInv, OneListener, Listening
<1> QED BY <1>2, <1>3, <1>4, <1>5, <1>6, BecomesKeeps

(* A step that only clears the panel, with no receiver waiting, or adds     *)
(* the offer on it to the ones scanned (Present, OtherApp, Scan).           *)
LEMMA PanelKeeps ==
  ASSUME LifeInv, UNCHANGED <<file, used, proc, revoked, overtaken>>,
         \/ screen' = screen
         \/ screen' = NoOffer /\ \A p \in Processes : proc[p].pc # "idle",
         scanned' \subseteq scanned \cup ({screen} \ {NoOffer})
  PROVE  LifeInv'
<1>1. LifeTypeOK'
  BY DEF LifeInv, LifeTypeOK
<1>2. Memory' /\ OneWriter' /\ OneListener' /\ KeyOnFile'
  BY DEF LifeInv, Memory, KeyOf, IdOf, OneWriter, OneListener, KeyOnFile
<1>3. OffersStand'
  BY DEF LifeInv, OffersStand, Stands
<1>4. QrIsCurrent'
  BY DEF LifeInv, QrIsCurrent, Offer, Accepts, UsesKey
<1> QED BY <1>1, <1>2, <1>3, <1>4 DEF LifeInv

--------------------------------------------------------------------------------
(* The invariant holds throughout, and what it implies.                     *)

(* No process runs and nothing is stored at first.                          *)
LEMMA LifeInitInv == LifeInit => LifeInv
<1> SUFFICES ASSUME LifeInit PROVE LifeInv
  OBVIOUS
<1>1. "down" \in Down /\ \A p \in Processes : proc[p] = Ended("down")
  BY DEF LifeInit, Down
<1>2. Memory /\ \A p \in Processes : proc[p] \in Process /\ proc[p].pc = "down"
  BY <1>1, EndedInOrder DEF Memory
<1>3. LifeTypeOK
  BY <1>2 DEF LifeInit, LifeTypeOK, Values
<1>4. OneWriter /\ OneListener /\ QrIsCurrent
  BY <1>2 DEF OneWriter, OneListener, QrIsCurrent, Listening
<1>5. KeyOnFile /\ OffersStand
  BY PairingAssumption DEF LifeInit, KeyOnFile, OffersStand, Items
<1> QED BY <1>2, <1>3, <1>4, <1>5 DEF LifeInv

(* Every step of receivers, producers and their environment keeps it.       *)
LEMMA LifeInvStep == LifeInv /\ [LifeNext]_lifeVars => LifeInv'
<1> SUFFICES ASSUME LifeInv, [LifeNext]_lifeVars PROVE LifeInv'
  OBVIOUS
<1>1. CASE UNCHANGED lifeVars
  BY <1>1, PanelKeeps DEF lifeVars
<1>2. ASSUME NEW p \in Processes, Runs(p) PROVE LifeInv'
  BY <1>2, LoadKeeps, CreateKeeps, WriteKeeps, BindKeeps, ShowKeeps, RotateKeeps,
     InstallKeeps
  DEF Runs
<1>3. ASSUME NEW p \in Processes, NEW a \in Launches, Launch(p, a) PROVE LifeInv'
  BY <1>3, LaunchKeeps
<1>4. ASSUME NEW p \in Processes, WriteFails(p) PROVE LifeInv'
  BY <1>4, WriteFailsKeeps
<1>5. ASSUME NEW p \in Processes, new_pairing(p) PROVE LifeInv'
  BY <1>5, NewPairingKeeps
<1>6. ASSUME NEW p \in Processes, NEW o \in scanned, Connect(p, o) PROVE LifeInv'
  BY <1>6, ConnectKeeps
<1>7. ASSUME NEW p \in Processes, Present(p) PROVE LifeInv'
  <2>1. \A q \in Processes : proc[q].pc # "idle"
    BY <1>7 DEF Present, LifeInv, OneListener, Listening
  <2> QED BY <1>7, <2>1, PanelKeeps DEF Present
<1>8. ASSUME NEW p \in Processes, Disconnect(p) PROVE LifeInv'
  BY <1>8, AfterSessionKeeps DEF Disconnect, Becomes
<1>9. ASSUME NEW p \in Processes, Stop(p) PROVE LifeInv'
  BY <1>9, EndedKeeps DEF Stop, Becomes, Down
<1>10. CASE Scan
  BY <1>10, PanelKeeps DEF Scan
<1>11. CASE OtherApp
  BY <1>11, PanelKeeps DEF OtherApp, Listening
<1> QED
  BY <1>1, <1>2, <1>3, <1>4, <1>5, <1>6, <1>7, <1>8, <1>9, <1>10, <1>11
  DEF LifeNext

(* LifeInv holds in every reachable state.                                  *)
LEMMA LifeInvariant == LifeSpec => []LifeInv
<1>1. LifeInit => LifeInv
  BY LifeInitInv
<1>2. LifeInv /\ [LifeNext]_lifeVars => LifeInv'
  BY LifeInvStep
<1> QED BY <1>1, <1>2, PTL DEF LifeSpec

(* Files, processes, panel and offers have the shapes main.rs and server.rs *)
(* give them, for any number of receivers started and stopped in any order. *)
THEOREM LifeTypeCorrect == LifeSpec => []LifeTypeOK
<1>1. LifeInv => LifeTypeOK
  BY DEF LifeInv
<1> QED BY <1>1, LifeInvariant, PTL

(* Whatever was stopped half-way and whoever starts beside it, a receiver   *)
(* serves with the key and the identity that are on file                    *)
(* (load_or_create_psk, load_or_create_server_id, new_pairing).             *)
THEOREM ServesStored == LifeSpec => []ServesWhatIsStored
<1>1. LifeInv => ServesWhatIsStored
  <2> SUFFICES ASSUME LifeInv, NEW p \in Processes,
                      proc[p].pc \in {"show", "idle", "serving"},
                      p \notin overtaken
               PROVE  /\ UsesKey(p) => file["psk"] = proc[p].psk
                      /\ ~proc[p].args.server_id => file["server-id"] = proc[p].id
    BY DEF ServesWhatIsStored
  <2>1. ShapeOf(proc[p]) /\ KeyOf(p, proc[p]) /\ IdOf(proc[p])
    BY DEF LifeInv, Memory
  <2> QED
    BY <2>1 DEF ShapeOf, KeyOf, IdOf, UsesKey, Writing, Listening, Down
<1> QED BY <1>1, LifeInvariant, PTL

(* A pairing a producer once scanned keeps working, whatever disconnects,   *)
(* stops and restarts come between, until NEW PAIR (Psk::load,              *)
(* load_server_id).                                                         *)
THEOREM PairingsSurvive == LifeSpec => []PairingSurvives
<1>1. LifeInv => PairingSurvives
  <2> SUFFICES ASSUME LifeInv, NEW p \in Processes, NEW o \in scanned,
                      proc[p].pc = "idle", p \notin overtaken, UsesKey(p),
                      o.security = "psk", o.psk \notin revoked
               PROVE  /\ o.psk = proc[p].psk
                      /\ {o.server, proc[p].id} \subseteq ServerIds =>
                           o.server = proc[p].id
    BY DEF PairingSurvives
  <2>1. ShapeOf(proc[p]) /\ KeyOf(p, proc[p]) /\ IdOf(proc[p]) /\ Stands(o)
    BY DEF LifeInv, Memory, OffersStand
  <2> QED
    BY <2>1 DEF ShapeOf, KeyOf, IdOf, Stands, UsesKey, Writing, Listening
<1> QED BY <1>1, LifeInvariant, PTL

(* A key that NEW PAIR has replaced serves nobody any more, also when the   *)
(* receiver is stopped right after the rename (new_pairing, serve_stream).  *)
THEOREM RevokedServesNobody == LifeSpec => []RevokedNeverServed
<1>1. LifeInv => RevokedNeverServed
  <2> SUFFICES ASSUME LifeInv, NEW p \in Processes,
                      proc[p].pc = "serving", p \notin overtaken
               PROVE  proc[p].peer.psk \notin revoked
    BY DEF RevokedNeverServed
  <2>1. /\ ShapeOf(proc[p]) /\ KeyOf(p, proc[p])
        /\ file["psk"] \notin revoked /\ "absent" \notin revoked
    BY PairingAssumption DEF LifeInv, LifeTypeOK, Memory, KeyOnFile
  <2> QED BY <2>1 DEF ShapeOf, KeyOf, Writing, Listening
<1> QED BY <1>1, LifeInvariant, PTL

(* The QR a waiting receiver has on the panel is the offer it accepts       *)
(* (show_pairing_qr).                                                       *)
THEOREM QrAlwaysCurrent == LifeSpec => []QrIsCurrent
<1>1. LifeInv => QrIsCurrent
  BY DEF LifeInv
<1> QED BY <1>1, LifeInvariant, PTL

================================================================================
