---------------------------- MODULE MCOperations ----------------------------
(* Operations on small instances: what TLC is given that a configuration      *)
(* cannot say.  The other values are in MCOperations.cfg, the bounds in the   *)
(* README.                                                                    *)
EXTENDS Operations, TLC

CONSTANTS p1, p2,   \* phones: the second takes the tenant over from the first
          c1,       \* key of p1, whose identifier the app chooses
          e1, e2,   \* keys of p2 that compete for the challenge ch
          s1, s2    \* sessions of phones at the door

-----------------------------------------------------------------------------
(* Publication: the other writer of the mobile directory has the middle build. *)
MCReleased == {<<2, 2>>}

(* Enrollment: with two rows a phone may register again after deletion, or  *)
(* the other one take the tenant over.                                       *)
MCPhoneOf == c1 :> p1 @@ e1 :> p2 @@ e2 :> p2

(* AdminControl: b may propose and approve; n3 is a request of the old kind (v2). *)
MCProofs == {"n1", "n2", "n3"}
MCKind == [n \in MCProofs |-> IF n = "n3" THEN "v2" ELSE "v3"]

(* SessionView: nothing tells one session from another.                     *)
MCSymmetry == Permutations({s1, s2})

(* EventStream: recorded sessions as the fixtures have them, each with one   *)
(* fault: an event lost, caused by another one, sent again, told by another  *)
(* boot.                                                                     *)
Event(id, component, boot, seq, cause, code, kind) ==
    [id |-> id, component |-> component, source |-> IF component = "target" THEN 2 ELSE 1,
     boot |-> boot, seq |-> seq, cause |-> cause, code |-> code, kind |-> kind,
     wall |-> IF component = "target" THEN 0 ELSE 10 - id, mono |-> seq, attempt |-> 1,
     session |-> 1, path |-> "", at |-> IF component = "target" THEN boot ELSE 0,
     part |-> IF kind = "update" THEN "target" ELSE "", goal |-> IF kind = "update" THEN 2 ELSE 0,
     version |-> 1, confirmed |-> TRUE, valid |-> TRUE, copy |-> 1]

Local == {Event(1, "phone", 1, 1, 0, "STARTED", "access"),
          Event(2, "target", 1, 1, 1, "PROOF", "access"),
          Event(3, "target", 1, 2, 2, "RELAY_ON", "access"),
          Event(4, "target", 1, 3, 3, "RELAY_OFF", "access"),
          Event(5, "phone", 1, 2, 4, "COMPLETED", "access")}
Reset == {Event(1, "phone", 1, 1, 0, "STARTED", "access"),
          Event(2, "target", 1, 1, 1, "PROOF", "access"),
          Event(3, "target", 1, 2, 2, "ARMED", "access"),
          Event(4, "target", 2, 1, 3, "RESET", "access")}
Manual == {[Event(1, "phone", 1, 1, 0, "STARTED", "access") EXCEPT !.path = "manual"],
           Event(2, "backend", 1, 2, 1, "AUTHORIZED", "access"),
           Event(3, "target", 1, 1, 2, "RELAY_ON", "access"),
           Event(4, "target", 1, 2, 3, "RELAY_OFF", "access"),
           Event(5, "target", 1, 3, 4, "COMPLETED", "access")}
Update == {Event(1, "target", 1, 1, 0, "U_STARTED", "update"),
           Event(2, "target", 1, 2, 1, "INSTALLED", "update"),
           Event(3, "target", 2, 1, 2, "BOOTED", "update"),
           Event(4, "target", 2, 2, 3, "COMPLETED", "update")}
Rollback == {Event(1, "target", 1, 1, 0, "U_STARTED", "update"),
             Event(2, "target", 1, 2, 1, "ROLLBACK", "update"),
             Event(3, "target", 2, 1, 2, "PREVIOUS_BOOTED", "update"),
             Event(4, "target", 2, 2, 3, "ROLLED_BACK", "update"),
             Event(5, "target", 2, 3, 4, "RECOVERED", "update")}
Mobile == {[Event(1, "phone", 1, 1, 0, "U_STARTED", "update") EXCEPT !.part = "mobile"],
           [Event(2, "phone", 1, 2, 1, "INSTALLED", "update") EXCEPT !.part = "mobile"],
           [Event(3, "phone", 2, 1, 2, "COMPLETED", "update") EXCEPT !.part = "mobile"]}

Faulty(session) ==
    {session} \cup {session \ {e} : e \in session}
        \cup {session \cup {[e EXCEPT !.copy = 2]} : e \in session}
        \cup {session \cup {[e EXCEPT !.copy = 2, !.cause = 9]} : e \in session}
        \cup {(session \ {e}) \cup {[e EXCEPT !.cause = c]} : e \in session, c \in 0..5}
        \cup {(session \ {e}) \cup {[e EXCEPT !.boot = 3 - @, !.seq = @ + 3,
                                       !.at = IF @ = 0 THEN 0 ELSE 3 - @]} : e \in session}
        \cup {(session \ {e}) \cup {[e EXCEPT !.valid = FALSE]} : e \in session}
        \cup {(session \ {e}) \cup {[e EXCEPT !.session = 2]} : e \in session}
        \cup {(session \ {e}) \cup {[e EXCEPT !.path = p]} : e \in session, p \in {"manual", "other"}}
        \cup {(session \ {e}) \cup {[e EXCEPT !.version = 2, !.confirmed = c]} : e \in session, c \in BOOLEAN}
        \cup {session \cup {[Event(6, "target", 1, q, c, code, e.kind) EXCEPT !.mono = m]} :
                e \in {CHOOSE e \in session : e.id = 1}, q \in {0, 4}, c \in {0, 1, 4}, m \in {1, 4},
                code \in {"RELAY_ON", "RELAY_OFF", "PROOF_REJECTED", "ARMED"}}
        \cup {session \cup {Event(6, "target", 1, 4, 4, "RELAY_ON", "access"),
                      Event(7, "target", 1, 5, 6, "RELAY_OFF", "access")},
              session \cup {Event(6, "target", 1, 0, 1, "RELAY_ON", "access"),
                      [Event(7, "target", 1, 4, 4, "RELAY_OFF", "access") EXCEPT !.mono = 4]}}

(* Two sessions in one collection.                                          *)
Two == {Update \cup {[e EXCEPT !.id = @ + 5, !.source = @ + 2, !.boot = @ + 2, !.at = @ + 2,
                                !.cause = IF @ = 0 THEN 0 ELSE @ + 5, !.session = s] : e \in Update} :
          s \in {1, 2}}

MCStreams == UNION {Faulty(session) : session \in {Local, Reset, Manual, Update, Rollback, Mobile}} \cup Two
MCRequired == [local |-> <<"STARTED", "PROOF", "RELAY_ON", "RELAY_OFF", "COMPLETED">>,
               legacy |-> <<"STARTED", "AUTHORIZED", "ARMED", "RELAY_ON", "RELAY_OFF", "COMPLETED">>,
               manual |-> <<"STARTED", "AUTHORIZED", "RELAY_ON", "RELAY_OFF", "COMPLETED">>,
               target |-> <<"U_STARTED", "INSTALLED", "BOOTED">>,
               mobile |-> <<"U_STARTED", "INSTALLED">>,
               rollback |-> <<"U_STARTED", "ROLLBACK", "PREVIOUS_BOOTED", "ROLLED_BACK", "RECOVERED">>]
=============================================================================
