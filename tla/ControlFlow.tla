------------------------------ MODULE ControlFlow ------------------------------
(***************************************************************************)
(* Producers that connect one after the other, negotiate and then steer    *)
(* the receiver's refresh policy, while its owner uses the menu.  The      *)
(* reference producer (rm-display-cli/src/client.rs) makes one blocking    *)
(* call at a time and only what the receiver's hello allows; any other     *)
(* producer sends what it likes.  The serve loop is                        *)
(* rm-display-receiver/src/server.rs.                                      *)
(***************************************************************************)
EXTENDS SessionControl, FiniteSets

CONSTANTS
  Baseline,         \* refresh policy of the receiver's command line
  Profiles,         \* named profiles the producers and the menu choose from
  Hellos,           \* hello messages of other producers
  Device,           \* the receiver's hardware
  ProfileRequests,  \* profile requests, without their id
  RefreshRequests,  \* refresh requests, without their id
  MaxRequests,      \* bound: control requests of one connection
  MaxSent,          \* bound: messages on their way to the receiver
  MaxUnread         \* bound: answers waiting when a message is sent

ASSUME ControlAssumption ==
  /\ Baseline \in Policies /\ ValidConfig(Baseline)
  /\ Profiles \subseteq NamedProfiles
  /\ Hellos \subseteq ClientHello /\ Device \in Hardware
  /\ ProfileRequests \subseteq EpaperProfileRequest
  /\ RefreshRequests \subseteq EpaperRefreshRequest
  /\ \A req \in RefreshRequests :
       \A u, v \in req.cleanup_after_updates : u = v
  /\ {MaxRequests, MaxSent, MaxUnread} \subseteq Nat

VARIABLES
  baseline,       \* config.refresh_policy of the server
  link,           \* "idle", "hello", "answered" or "up"
  hello,          \* the producer's hello, until it has its answer
  server_hello,   \* the answer, kept by the reference producer
  reference,      \* whether the producer is the reference producer
  call,           \* the answer the reference producer waits for, or "none"
  next_request_id,
  to_receiver,
  unanswered,     \* messages sent whose answer has not been read, by kind
  override        \* {} or {the cleanup interval an UPDATE set}

flowVars == <<controlVars, to_client, ledger, baseline, link, hello,
              server_hello, reference, call, next_request_id, to_receiver,
              unanswered, override>>

producerVars == <<reference, call, next_request_id, unanswered>>
linkVars     == <<baseline, link, hello, server_hello>>

NoHello == [min_minor |-> -1]

Kinds == {"frame", "surface", "overlay", "profile", "refresh"}

Nobody ==
  /\ link' = "idle" /\ hello' = NoHello /\ server_hello' = NoHello
  /\ reference' = FALSE /\ call' = "none"
  /\ next_request_id' = [s \in Streams |-> 1]
  /\ to_receiver' = <<>> /\ unanswered' = [k \in Kinds |-> 0]
  /\ override' = {}

--------------------------------------------------------------------------------
(* Between connections: the idle session draws its menu over the pairing    *)
(* screen; the policy it ends with becomes the server's.                    *)

IdlePolicies ==
  {switched_to(baseline, p) : p \in Profiles}
    \cup {[baseline EXCEPT !.partial_refresh_enabled = ~@]}

IdleMenu ==
  /\ link = "idle"
  /\ baseline' \in IdlePolicies
  /\ SessionNew(baseline')
  /\ Nobody

\* EXIT, or an error of the panel: the receiver is started again.
Restart ==
  /\ baseline' = Baseline
  /\ SessionNew(Baseline)
  /\ Nobody

--------------------------------------------------------------------------------
(* The hello exchange and the end of a connection.                          *)

Connect(h, ref) ==
  /\ link = "idle"
  /\ link' = "hello" /\ hello' = h /\ reference' = ref
  /\ UNCHANGED <<controlVars, to_client, ledger, baseline, server_hello, call,
                 next_request_id, to_receiver, unanswered, override>>

\* accept_hello; a hello that is refused ends the connection (EndConnection).
accept_hello ==
  /\ link = "hello" /\ Accepts(hello)
  /\ link' = "answered"
  /\ server_hello' = ServerHello(hello, Device)
  /\ gates' = server_hello'.features \cap ControlFeatures
  /\ UNCHANGED <<policy, last_custom_profile, core,
                 cleanup_pending_without_surface, refresh_debt_without_surface,
                 last_request_id, to_client, ledger, baseline, hello, reference,
                 call, next_request_id, to_receiver, unanswered, override>>

\* What the reference producer keeps of the answer to its control calls.
ReceiveHello ==
  /\ link = "answered" /\ validate_server_hello(server_hello)
  /\ link' = "up" /\ hello' = NoHello
  /\ server_hello' =
       IF reference THEN [server_hello EXCEPT !.features = @ \cap ControlFeatures]
                    ELSE NoHello
  /\ UNCHANGED <<controlVars, to_client, ledger, baseline, producerVars,
                 to_receiver, override>>

\* Goodbye, a closed socket, a refused hello, a protocol error or a menu that
\* could not be drawn: session, surface and requests are gone, and whatever call
\* was waiting returns with an error.
EndConnection ==
  /\ link # "idle"
  /\ SessionNew(baseline)
  /\ Nobody
  /\ UNCHANGED baseline

--------------------------------------------------------------------------------
(* Producers.                                                               *)

Sent == next_request_id["profile"] + next_request_id["refresh"] - 2

MaySend ==
  link = "up" /\ Len(to_receiver) < MaxSent /\ Len(to_client) < MaxUnread

Post(kind, msg) ==
  /\ MaySend
  /\ to_receiver' = Append(to_receiver, msg)
  /\ unanswered' = [unanswered EXCEPT ![kind] = @ + 1]
  /\ UNCHANGED <<controlVars, to_client, ledger, linkVars, reference, override>>

Plain(kind) == [type |-> kind]

\* send_frame, open_surface and update_overlay.
PostPlain(kind) ==
  /\ kind \in {"frame", "surface", "overlay"} /\ call = "none"
  /\ unanswered[kind] = 0
  /\ Post(kind, Plain(kind))
  /\ call' = IF reference /\ kind # "frame" THEN kind ELSE "none"
  /\ UNCHANGED next_request_id

\* Only other producers close a surface; nothing answers it.
PostClose ==
  /\ ~reference /\ MaySend
  /\ to_receiver' = Append(to_receiver, Plain("close"))
  /\ UNCHANGED <<controlVars, to_client, ledger, linkVars, producerVars,
                 override>>

Supports(feature) == feature \in server_hello.features

\* request_epaper_profile, request_custom_epaper_profile, query_epaper_profile
ProfileCall(req) ==
  /\ Supports("EpaperProfileControl")
  /\ \/ req.operation = "Query" /\ req.profile = "Unspecified" /\ req.custom = {}
     \/ req.operation = "Set" /\ req.profile \in NamedProfiles /\ req.custom = {}
     \/ /\ req.operation = "Set" /\ req.profile = "Custom" /\ req.custom # {}
        /\ server_hello.selected_minor >= 2 /\ Supports("EpaperCustomProfile")

\* query_epaper_refresh, update_epaper_refresh and request_epaper_cleanup
RefreshCall(req) ==
  /\ Supports("EpaperRefreshControl")
  /\ IF req.operation = "Update" THEN has_parameters(req)
     ELSE req.operation \in {"Query", "Cleanup"} /\ ~has_parameters(req)

\* The command line takes no value out of range.
InRange(stream, req) ==
  IF stream = "profile" THEN \A c \in req.custom : ValidConfig(c)
                        ELSE ValidUpdate(req)

Allowed(stream, req) ==
  /\ InRange(stream, req)
  /\ IF stream = "profile" THEN ProfileCall(req) ELSE RefreshCall(req)

Message(stream, req, id) == [type |-> stream, id |-> id, body |-> req]

\* The calls block; other producers send any request, also with an id that is
\* zero or was used before.
PostRequest(stream, req) ==
  /\ link = "up" /\ Sent < MaxRequests
  /\ next_request_id' = [next_request_id EXCEPT ![stream] = @ + 1]
  /\ \/ /\ reference /\ call = "none" /\ Allowed(stream, req)
        /\ call' = stream
        /\ Post(stream, Message(stream, req, next_request_id[stream]))
     \/ /\ ~reference
        /\ \E id \in {next_request_id[stream] - 1, next_request_id[stream]} :
             Post(stream, Message(stream, req, id))
        /\ UNCHANGED call

Kind(m) ==
  CASE m.type = "FrameResult"   -> "frame"
    [] m.type = "SurfaceReady"  -> "surface"
    [] m.type = "OverlayResult" -> "overlay"
    [] OTHER                    -> m.type

\* receive: an answer ends the call that waits for it, anything else is
\* dispatched and the call goes on waiting.
Receive ==
  /\ link = "up" /\ to_client # <<>>
  /\ LET kind == Kind(Head(to_client))
     IN /\ unanswered' = [unanswered EXCEPT ![kind] = @ - 1]
        /\ call' = IF call = kind THEN "none" ELSE call
  /\ to_client' = Tail(to_client)
  /\ UNCHANGED <<controlVars, ledger, linkVars, reference, next_request_id,
                 to_receiver, override>>

--------------------------------------------------------------------------------
(* The serve loop: decode and handle a message, poll, the menu.             *)

Handled == [Head(to_receiver).body EXCEPT !.id = Head(to_receiver).id]

\* The cleanup interval an UPDATE chose, other than a preset's, until a CUSTOM
\* policy replaces everything.
Override(req) ==
  IF policy' = policy THEN override
  ELSE IF Head(to_receiver).type = "profile"
    THEN IF req.profile = "Custom" THEN {} ELSE override
  ELSE IF req.cleanup_after_updates = {} THEN override
  ELSE req.cleanup_after_updates
         \ {for_profile(policy.profile).cleanup_after_updates}

HandleRequest ==
  /\ \/ Head(to_receiver).type = "profile" /\ handle_epaper_profile(Handled)
     \/ Head(to_receiver).type = "refresh" /\ handle_epaper_refresh(Handled)
  /\ override' = Override(Handled)

HandlePlain ==
  /\ \/ Head(to_receiver).type = "frame" /\ accept_frame
     \/ Head(to_receiver).type = "surface" /\ open_surface
     \/ Head(to_receiver).type = "close" /\ close_surface
     \/ Head(to_receiver).type = "overlay" /\ overlay_update
  /\ UNCHANGED override

Handle ==
  /\ link = "up" /\ to_receiver # <<>>
  /\ HandleRequest \/ HandlePlain
  /\ to_receiver' = Tail(to_receiver)
  /\ UNCHANGED <<linkVars, producerVars>>

Polls ==
  /\ link = "up"
  /\ poll
  /\ UNCHANGED <<linkVars, producerVars, to_receiver, override>>

Menu ==
  /\ link = "up"
  /\ \/ \E p \in Profiles : MenuSetProfile(p) /\ UNCHANGED override
     \/ MenuSetProfile("Custom") /\ override' = {}
     \/ (TogglePartialRefresh \/ RenderMenu \/ local_cleanup)
          /\ UNCHANGED override
  /\ UNCHANGED <<linkVars, producerVars, to_receiver>>

ControlInit ==
  /\ SessionControlInit(Baseline)
  /\ baseline = Baseline /\ link = "idle"
  /\ hello = NoHello /\ server_hello = NoHello
  /\ reference = FALSE /\ call = "none"
  /\ next_request_id = [s \in Streams |-> 1]
  /\ to_receiver = <<>> /\ unanswered = [k \in Kinds |-> 0]
  /\ override = {}

ControlNext ==
  \/ IdleMenu \/ Restart
  \/ Connect(ReferenceHello, TRUE)
  \/ \E h \in Hellos : Connect(h, FALSE)
  \/ accept_hello \/ ReceiveHello \/ EndConnection
  \/ \E kind \in Kinds : PostPlain(kind)
  \/ PostClose
  \/ \E req \in ProfileRequests : PostRequest("profile", req)
  \/ \E req \in RefreshRequests : PostRequest("refresh", req)
  \/ Receive
  \/ Handle \/ Polls \/ Menu

ControlSpec == ControlInit /\ [][ControlNext]_flowVars

--------------------------------------------------------------------------------
(* Properties.                                                              *)

(* Policies are valid configurations, counters stay in range and the        *)
(* channels carry messages of their direction (ReceiverConfig,              *)
(* ActiveSurface, the control messages).                                    *)
ControlTypeOK ==
  /\ ValidConfig(policy) /\ ValidConfig(baseline)
  /\ \A c \in last_custom_profile : ValidConfig(c) /\ c.profile = "Custom"
  /\ Cardinality(last_custom_profile) <= 1
  /\ core # NoCore =>
       /\ core.pending \in BOOLEAN /\ core.presented \in BOOLEAN
       /\ core.force_cleanup_next \in BOOLEAN /\ core.debt \in RefreshDebt
  /\ cleanup_pending_without_surface \in BOOLEAN
  /\ refresh_debt_without_surface \in RefreshDebt
  /\ gates \subseteq ControlFeatures
  /\ last_request_id \in [Streams -> 0..MaxRequests]
  /\ link \in {"idle", "hello", "answered", "up"}
  /\ call \in Kinds \cup {"none"}
  /\ unanswered \in [Kinds -> Nat]
  /\ \A i \in DOMAIN to_client : "result" \in DOMAIN to_client[i] =>
       to_client[i].result \in Codes
  /\ ledger \in [owed : BOOLEAN, partials : 0..CountMax]

(* One policy: the configuration the open surface is driven with is the     *)
(* session's after SET, UPDATE, the menu and SurfaceOpen in any order, and  *)
(* a cleanup interval that an UPDATE chose survives every switch between    *)
(* named profiles (change_refresh_profile, update_refresh_config,           *)
(* open_surface, switched_to).                                              *)
PolicyAgrees ==
  /\ core # NoCore => core.config = policy
  /\ override \subseteq {policy.cleanup_after_updates}

(* A complete refresh promised to the producer, by a changed profile or a   *)
(* CLEANUP, stays armed until the panel has done it: through failures,      *)
(* planes, SurfaceClose, SurfaceOpen and replacement                        *)
(* (cleanup_pending_without_surface, carry_cleanup).                        *)
CleanupCarried == ledger.owed => current_cleanup_pending

(* The partial updates reported to the producer are those the panel took    *)
(* since its last complete refresh, on whichever surfaces of the connection *)
(* (carry_debt, refresh_debt_without_surface).                              *)
DebtCarried == CarryDebt.since_cleanup = ledger.partials

(* A result never claims more than the panel did: cleanup_performed means   *)
(* that it was completely refreshed, and no cleanup_pending that none is    *)
(* owed any more (CleanupReport, RefreshProfileChange).                     *)
ReportsTrue ==
  [][Len(to_client') > Len(to_client) =>
       LET m == to_client'[Len(to_client')]
       IN m.type \in Streams =>
            /\ m.cleanup_performed => ~ledger'.owed /\ ledger'.partials = 0
            /\ ~m.cleanup_pending => ~ledger'.owed]_flowVars

\* Messages of kind k on their way, and answers to them.
Asked(k) == {i \in DOMAIN to_receiver : to_receiver[i].type = k}

Answered(k) == {i \in DOMAIN to_client : Kind(to_client[i]) = k}

(* Every request, overlay, surface and frame has exactly one answer: it is  *)
(* still on its way, waits in the core or its answer is under way, even     *)
(* when a control request, the menu or a new surface completes a frame; so  *)
(* a blocking call never waits for an answer that will not come             *)
(* (terminal_result, CleanupReport.terminals, cancel_pending).              *)
OneAnswerEach ==
  /\ call # "none" => unanswered[call] > 0
  /\ link = "up" => \A k \in Kinds :
       unanswered[k] = Cardinality(Asked(k)) + Cardinality(Answered(k))
                         + IF k = "frame" THEN Waiting(core) ELSE 0

(* The reference producer is never told that its request is unsupported or  *)
(* malformed: the receiver gates exactly what its hello echoed, and request *)
(* ids keep rising (Supports, the gates of accept_hello, FreshId).          *)
ReferenceServed ==
  reference => \A i \in DOMAIN to_client :
    "result" \in DOMAIN to_client[i] =>
      to_client[i].result \notin {"Rejected", "Unsupported"}

\* The minors a hello and the receiver have in common.
CommonMinors(h) ==
  {minor \in 0..MAX_MINOR :
     Covers(h, minor) /\ MinorFeatures(minor) \subseteq h.features}

(* The receiver selects the highest minor whose features both sides have,   *)
(* and its answer passes the producer's own check; a producer that offers   *)
(* custom profiles offers profile control as well (select_minor,            *)
(* accept_hello, validate_server_hello).                                    *)
HelloAgreed ==
  link = "answered" =>
    /\ server_hello.selected_minor \in CommonMinors(hello)
    /\ \A minor \in CommonMinors(hello) : minor <= server_hello.selected_minor
    /\ ("EpaperCustomProfile" \in hello.features =>
          "EpaperProfileControl" \in hello.features)
         => validate_server_hello(server_hello)
================================================================================
