--------------------------- MODULE SafeModeProofs ---------------------------
(***************************************************************************)
(* What TLAPS proves of SafeMode, for any sessions, any edits and any      *)
(* bound.                                                                  *)
(***************************************************************************)
EXTENDS SafeMode, TLAPS

\* The types and the forks' shape hold at the start.
LEMMA InitTypes == Init => TypeOK
BY DEF Init, TypeOK, Trees

\* Every step keeps them.
LEMMA StepTypes ==
  TypeOK /\ [Next]_vars => TypeOK'
<1> SUFFICES ASSUME TypeOK, [Next]_vars PROVE TypeOK'
  OBVIOUS
<1> USE DEF TypeOK, Trees, Mishaps
<1>1. CASE Checkpoint
  BY <1>1 DEF Checkpoint, Suffers, WindowIfOpen, Row, Drained, server, forks, history
<1>2. CASE Recover
  BY <1>2 DEF Recover, Suffers, WindowIfOpen, Baselined, Publishes, server, history
<1>3. CASE Cut
  BY <1>3 DEF Cut, Suffers, PeekIfCovered, Row, Drained, server, forks, history
<1>4. CASE Commit
  BY <1>4 DEF Commit, Publishes, server, history
<1>5. CASE ResolveStray
  BY <1>5 DEF ResolveStray, Suffers, Forget, pipeline, history
<1>6. CASE Stop
  BY <1>6 DEF Stop, Suffers, Forget, Own, pipeline
<1>7. CASE Exit
  BY <1>7 DEF Exit, Suffers, Forget, Own, Publishes, Held
<1>8. CASE Restart
  BY <1>8 DEF Restart, Publishes, history
<1>9. ASSUME NEW e \in Edits, Edit(e) PROVE TypeOK'
  BY <1>9 DEF Edit, server
<1>10. ASSUME NEW s \in Sessions, CutFork(s) PROVE TypeOK'
  BY <1>10 DEF CutFork, Suffers, PeekIfCovered, Drained, history
<1>11. ASSUME NEW s \in Sessions, Mount(s) PROVE TypeOK'
  BY <1>11 DEF Mount, Suffers, Forget, pipeline, history
<1>12. ASSUME NEW s \in Sessions, OpenFails(s) PROVE TypeOK'
  BY <1>12 DEF OpenFails, Forget, Suffers, PeekIfCovered, Row, Drained, history
<1>13. ASSUME NEW s \in Sessions, Shadow(s) PROVE TypeOK'
  BY <1>13 DEF Shadow, Suffers, forks, history
<1>14. ASSUME NEW s \in Sessions, Unmount(s) PROVE TypeOK'
  BY <1>14, ZenonT(40) DEF Unmount, Suffers, Forget, Own, pipeline
<1>15. ASSUME NEW s \in Sessions, ResolveSession(s) PROVE TypeOK'
  BY <1>15 DEF ResolveSession, Deafens, Suffers, PeekIfCovered, Drained, Forget, Own, history
<1>16. ASSUME NEW s \in Sessions, ResolveFails(s) PROVE TypeOK'
  BY <1>16 DEF ResolveFails, Deafens, Suffers, PeekIfCovered, Row, Drained, Forget, Own
<1>17. ASSUME NEW s \in Sessions, SessionFork(s) PROVE TypeOK'
  BY <1>17 DEF SessionFork, pipeline, forks, history
<1>18. ASSUME NEW s \in Sessions, Resolve(s) PROVE TypeOK'
  BY <1>18 DEF Resolve, Suffers, pipeline, forks, history
<1>19. ASSUME NEW s \in Sessions, Apply(s) PROVE TypeOK'
  BY <1>19 DEF Apply, Suffers, UnseenIfLost, Forget, Publishes, history
<1>20. ASSUME NEW s \in Sessions, Refuse(s) PROVE TypeOK'
  BY <1>20 DEF Refuse, Suffers, Forget, Own
<1>21. ASSUME NEW s \in Sessions, SwapFails(s) PROVE TypeOK'
  BY <1>21 DEF SwapFails, Suffers, PeekIfCovered, Baselined, Forget, Publishes, history
<1>22. ASSUME NEW s \in Sessions, ApplyFails(s) PROVE TypeOK'
  BY <1>22 DEF ApplyFails, Forget, Own
<1>23. ASSUME NEW s \in Sessions, BaselineFails(s) PROVE TypeOK'
  BY <1>23 DEF BaselineFails, Suffers, UnseenIfLost, PeekIfCovered, Baselined, Forget, Publishes, history
<1>24. ASSUME NEW s \in Sessions, Discard(s) PROVE TypeOK'
  BY <1>24 DEF Discard, Forget, Own, pipeline
<1>25. CASE UNCHANGED vars
  BY <1>25 DEF vars, pipeline, server, forks, history
<1> QED
  BY <1>1, <1>2, <1>3, <1>4, <1>5, <1>6, <1>7, <1>8, <1>9, <1>10, <1>11, <1>12, <1>13, <1>14,
     <1>15, <1>16, <1>17, <1>18, <1>19, <1>20, <1>21, <1>22, <1>23, <1>24, <1>25 DEF Next, Tasks, Applies

\* Every variable keeps its type, and a fork has what its base has.
THEOREM TypeCorrect == Spec => []TypeOK
<1>1. Init => TypeOK
  BY InitTypes
<1>2. TypeOK /\ [Next]_vars => TypeOK'
  BY StepTypes
<1> QED  BY <1>1, <1>2, PTL DEF Spec

\* What is published and in the tree stays in the tree, whatever has gone wrong.
THEOREM PublishedStaysHolds == Spec => PublishedStays
<1>1. TypeOK /\ [Next]_vars => [head \cap disk \subseteq disk']_vars
  <2> SUFFICES ASSUME TypeOK, Next PROVE head \cap disk \subseteq disk'
    BY DEF vars
  <2>1. ASSUME NEW s \in Sessions, Apply(s) \/ BaselineFails(s) PROVE head \cap disk \subseteq disk'
    BY <2>1 DEF Apply, BaselineFails, TypeOK
  <2>2. CASE UNCHANGED disk
    BY <2>2
  <2>3. ASSUME NEW e \in Edits, Edit(e) PROVE head \cap disk \subseteq disk'
    BY <2>3 DEF Edit
  <2>4. (\A s \in Sessions : ~ Apply(s) /\ ~ BaselineFails(s)) /\ (\A e \in Edits : ~ Edit(e))
          => UNCHANGED disk
    BY DEF Next, Tasks, Applies, Checkpoint, Recover, Cut, Commit, ResolveStray, Stop, Exit,
           Restart, CutFork, Mount, OpenFails, Shadow, Unmount, ResolveSession, ResolveFails,
           SessionFork, Resolve, Refuse, SwapFails, ApplyFails, Discard
  <2> QED  BY <2>1, <2>2, <2>3, <2>4
<1> QED  BY <1>1, TypeCorrect, PTL DEF Spec, PublishedStays

-----------------------------------------------------------------------------
(* Who covers the root *)

\* Unless two sessions met, what covers the root is the session in the slot or the
\* one that is being unmounted, nothing covers it when a resolve reaches the
\* pipeline, and the pipeline is shadowed, or about to be, while something does.
Rooted ==
  /\ phase = "down" => slot = Nobody /\ \A s \in Sessions : closing[s] = "none"
  /\ phase # "down" /\ Spared({"race"}) =>
    /\ slot # Nobody => mounts \subseteq {slot}
    /\ \A s \in Sessions : /\ closing[s] # "none" => slot = Nobody
                           /\ closing[s] = "taken" => mounts \subseteq {s}
                           /\ closing[s] = "bare" => mounts = {}
    /\ mounts # {} => shadowed \/ \E s \in Sessions : opening[s] = "mounted"

\* Every step keeps it.
LEMMA StepRooted ==
  TypeOK /\ Rooted /\ [Next]_vars => Rooted'
<1> SUFFICES ASSUME TypeOK, Rooted, [Next]_vars PROVE Rooted'
  OBVIOUS
<1> USE SessionsAssumption DEF TypeOK, Rooted, Spared
<1>1. CASE Checkpoint
  BY <1>1 DEF Checkpoint, Suffers, WindowIfOpen, Row, Drained, server, forks, history
<1>2. CASE Recover
  BY <1>2 DEF Recover, Suffers, WindowIfOpen, Baselined, Publishes, server, history
<1>3. CASE Cut
  BY <1>3 DEF Cut, Suffers, PeekIfCovered, Row, Drained, server, forks, history
<1>4. CASE Commit
  BY <1>4 DEF Commit, Publishes, server, history
<1>5. CASE ResolveStray
  BY <1>5 DEF ResolveStray, Suffers, Forget, pipeline, history
<1>6. CASE Stop
  BY <1>6 DEF Stop, Suffers, Forget, Own, pipeline
<1>7. CASE Exit
  BY <1>7 DEF Exit, Suffers, Forget, Own, Publishes, Held
<1>8. CASE Restart
  BY <1>8 DEF Restart, Publishes, history
<1>9. ASSUME NEW e \in Edits, Edit(e) PROVE Rooted'
  BY <1>9 DEF Edit, server
<1>10. ASSUME NEW s \in Sessions, CutFork(s) PROVE Rooted'
  BY <1>10 DEF CutFork, Suffers, PeekIfCovered, Drained, history
<1>11. ASSUME NEW s \in Sessions, Mount(s) PROVE Rooted'
  BY <1>11 DEF Mount, Suffers, Forget, pipeline, history
<1>12. ASSUME NEW s \in Sessions, OpenFails(s) PROVE Rooted'
  BY <1>12 DEF OpenFails, Forget, Suffers, PeekIfCovered, Row, Drained, history
<1>13. ASSUME NEW s \in Sessions, Shadow(s) PROVE Rooted'
  BY <1>13 DEF Shadow, Suffers, forks, history
<1>14. ASSUME NEW s \in Sessions, Unmount(s) PROVE Rooted'
  <2>1. CASE mounts' = mounts \ {s} /\ UNCHANGED <<base, overlay, given, amiss>>
    BY <1>14, <2>1 DEF Unmount, Suffers, Forget, Own, pipeline
  <2>2. CASE Suffers({"unmount"})
    BY <1>14, <2>2, SMTT(60) DEF Unmount, Suffers, Forget, Own, pipeline
  <2> QED  BY <1>14, <2>1, <2>2 DEF Unmount
<1>15. ASSUME NEW s \in Sessions, ResolveSession(s) PROVE Rooted'
  <2>1. /\ amiss \subseteq amiss' /\ closing' = [closing EXCEPT ![s] = "none"]
        /\ phase' = phase /\ slot' = slot /\ mounts' = mounts
        /\ opening' = opening /\ shadowed' = FALSE
        /\ closing[s] = "bare" /\ phase # "down"
    BY <1>15 DEF ResolveSession, Deafens, Suffers, PeekIfCovered, Drained, Forget, Own, history
  <2> QED  BY <2>1
<1>16. ASSUME NEW s \in Sessions, ResolveFails(s) PROVE Rooted'
  <2>1. /\ amiss \subseteq amiss' /\ closing' = [closing EXCEPT ![s] = "none"]
        /\ phase' = phase /\ slot' = slot /\ mounts' = mounts
        /\ opening' = opening /\ shadowed' = FALSE
        /\ closing[s] = "bare" /\ phase # "down"
    BY <1>16 DEF ResolveFails, Deafens, Suffers, PeekIfCovered, Row, Drained, Forget, Own
  <2> QED  BY <2>1
<1>17. ASSUME NEW s \in Sessions, SessionFork(s) PROVE Rooted'
  BY <1>17 DEF SessionFork, pipeline, forks, history
<1>18. ASSUME NEW s \in Sessions, Resolve(s) PROVE Rooted'
  BY <1>18 DEF Resolve, Suffers, pipeline, forks, history
<1>19. ASSUME NEW s \in Sessions, Apply(s) PROVE Rooted'
  BY <1>19 DEF Apply, Suffers, UnseenIfLost, Forget, Publishes, history
<1>20. ASSUME NEW s \in Sessions, Refuse(s) PROVE Rooted'
  BY <1>20 DEF Refuse, Suffers, Forget, Own
<1>21. ASSUME NEW s \in Sessions, SwapFails(s) PROVE Rooted'
  BY <1>21 DEF SwapFails, Suffers, PeekIfCovered, Baselined, Forget, Publishes, history
<1>22. ASSUME NEW s \in Sessions, ApplyFails(s) PROVE Rooted'
  BY <1>22 DEF ApplyFails, Forget, Own
<1>23. ASSUME NEW s \in Sessions, BaselineFails(s) PROVE Rooted'
  BY <1>23 DEF BaselineFails, Suffers, UnseenIfLost, PeekIfCovered, Baselined, Forget, Publishes, history
<1>24. ASSUME NEW s \in Sessions, Discard(s) PROVE Rooted'
  BY <1>24 DEF Discard, Forget, Own, pipeline
<1>25. CASE UNCHANGED vars
  BY <1>25 DEF vars, pipeline, server, forks, history
<1> QED
  BY <1>1, <1>2, <1>3, <1>4, <1>5, <1>6, <1>7, <1>8, <1>9, <1>10, <1>11, <1>12, <1>13, <1>14,
     <1>15, <1>16, <1>17, <1>18, <1>19, <1>20, <1>21, <1>22, <1>23, <1>24, <1>25 DEF Next, Tasks, Applies

\* A session that is being opened is not there yet; one that is being resolved is
\* not there any more; and what covers the root is the session in the slot, or one
\* that is about to be unmounted.
Covering ==
  /\ \A s \in Sessions : opening[s] \in {"checked", "cut"} =>
                          s # slot /\ closing[s] = "none" /\ s \notin pending
  /\ \A s \in Sessions : closing[s] # "none" => s # slot /\ s \notin pending
  /\ slot \notin pending
  /\ phase = "down" => slot = Nobody /\ \A s \in Sessions : opening[s] = "none"
                                                       /\ closing[s] = "none"
  /\ phase # "down" /\ Spared({"race", "stray", "unmount"}) =>
       /\ slot # Nobody => slot \in mounts
       /\ mounts \subseteq {slot} \cup {s \in Sessions : closing[s] = "taken"}
  /\ phase # "down" /\ Spared({"race", "early", "stray", "unmount"}) =>
       \A s \in Sessions : opening[s] = "mounted" => slot = s \/ phase = "stopping"

\* Every step keeps it.
LEMMA StepCovering ==
  TypeOK /\ Covering /\ [Next]_vars => Covering'
<1> SUFFICES ASSUME TypeOK, Covering, [Next]_vars PROVE Covering'
  OBVIOUS
<1> USE SessionsAssumption DEF TypeOK, Covering, Spared
<1>1. CASE Checkpoint
  BY <1>1 DEF Checkpoint, Suffers, WindowIfOpen, Row, Drained, server, forks, history
<1>2. CASE Recover
  BY <1>2 DEF Recover, Suffers, WindowIfOpen, Baselined, Publishes, server, history
<1>3. CASE Cut
  BY <1>3 DEF Cut, Suffers, PeekIfCovered, Row, Drained, server, forks, history
<1>4. CASE Commit
  BY <1>4 DEF Commit, Publishes, server, history
<1>5. CASE ResolveStray
  BY <1>5 DEF ResolveStray, Suffers, Forget, pipeline, history
<1>6. CASE Stop
  BY <1>6 DEF Stop, Suffers, Forget, Own, pipeline
<1>7. CASE Exit
  BY <1>7 DEF Exit, Suffers, Forget, Own, Publishes, Held
<1>8. CASE Restart
  BY <1>8 DEF Restart, Publishes, history
<1>9. ASSUME NEW e \in Edits, Edit(e) PROVE Covering'
  BY <1>9 DEF Edit, server
<1>10. ASSUME NEW s \in Sessions, CutFork(s) PROVE Covering'
  BY <1>10 DEF CutFork, Suffers, PeekIfCovered, Drained, history
<1>11. ASSUME NEW s \in Sessions, Mount(s) PROVE Covering'
  BY <1>11 DEF Mount, Suffers, Forget, pipeline, history
<1>12. ASSUME NEW s \in Sessions, OpenFails(s) PROVE Covering'
  BY <1>12 DEF OpenFails, Forget, Suffers, PeekIfCovered, Row, Drained, history
<1>13. ASSUME NEW s \in Sessions, Shadow(s) PROVE Covering'
  BY <1>13 DEF Shadow, Suffers, forks, history
<1>14. ASSUME NEW s \in Sessions, Unmount(s) PROVE Covering'
  BY <1>14 DEF Unmount, Suffers, Forget, Own, pipeline
<1>15. ASSUME NEW s \in Sessions, ResolveSession(s) PROVE Covering'
  BY <1>15 DEF ResolveSession, Deafens, Suffers, PeekIfCovered, Drained, Forget, Own, history
<1>16. ASSUME NEW s \in Sessions, ResolveFails(s) PROVE Covering'
  BY <1>16 DEF ResolveFails, Deafens, Suffers, PeekIfCovered, Row, Drained, Forget, Own
<1>17. ASSUME NEW s \in Sessions, SessionFork(s) PROVE Covering'
  BY <1>17 DEF SessionFork, pipeline, forks, history
<1>18. ASSUME NEW s \in Sessions, Resolve(s) PROVE Covering'
  BY <1>18 DEF Resolve, Suffers, pipeline, forks, history
<1>19. ASSUME NEW s \in Sessions, Apply(s) PROVE Covering'
  BY <1>19 DEF Apply, Suffers, UnseenIfLost, Forget, Publishes, history
<1>20. ASSUME NEW s \in Sessions, Refuse(s) PROVE Covering'
  BY <1>20 DEF Refuse, Suffers, Forget, Own
<1>21. ASSUME NEW s \in Sessions, SwapFails(s) PROVE Covering'
  BY <1>21 DEF SwapFails, Suffers, PeekIfCovered, Baselined, Forget, Publishes, history
<1>22. ASSUME NEW s \in Sessions, ApplyFails(s) PROVE Covering'
  BY <1>22 DEF ApplyFails, Forget, Own
<1>23. ASSUME NEW s \in Sessions, BaselineFails(s) PROVE Covering'
  BY <1>23 DEF BaselineFails, Suffers, UnseenIfLost, PeekIfCovered, Baselined, Forget, Publishes, history
<1>24. ASSUME NEW s \in Sessions, Discard(s) PROVE Covering'
  BY <1>24 DEF Discard, Forget, Own, pipeline
<1>25. CASE UNCHANGED vars
  BY <1>25 DEF vars, pipeline, server, forks, history
<1> QED
  BY <1>1, <1>2, <1>3, <1>4, <1>5, <1>6, <1>7, <1>8, <1>9, <1>10, <1>11, <1>12, <1>13, <1>14,
     <1>15, <1>16, <1>17, <1>18, <1>19, <1>20, <1>21, <1>22, <1>23, <1>24, <1>25 DEF Next, Tasks, Applies

-----------------------------------------------------------------------------
(* The shadow and the edits *)

\* What covers the root being known, the shadow fits it after every step.
LEMMA StepShadow ==
  TypeOK /\ Rooted /\ Covering /\ ShadowFits /\ [Next]_vars => ShadowFits'
<1> SUFFICES ASSUME TypeOK, Rooted, Covering, ShadowFits, [Next]_vars PROVE ShadowFits'
  OBVIOUS
<1> USE SessionsAssumption DEF TypeOK, Rooted, Covering, ShadowFits, Spared
<1>1. CASE Checkpoint
  BY <1>1 DEF Checkpoint, Suffers, WindowIfOpen, Row, Drained, server, forks, history
<1>2. CASE Recover
  BY <1>2 DEF Recover, Suffers, WindowIfOpen, Baselined, Publishes, server, history
<1>3. CASE Cut
  BY <1>3 DEF Cut, Suffers, PeekIfCovered, Row, Drained, server, forks, history
<1>4. CASE Commit
  BY <1>4 DEF Commit, Publishes, server, history
<1>5. CASE ResolveStray
  BY <1>5 DEF ResolveStray, Suffers, Forget, pipeline, history
<1>6. CASE Stop
  BY <1>6 DEF Stop, Suffers, Forget, Own, pipeline
<1>7. CASE Exit
  BY <1>7 DEF Exit, Suffers, Forget, Own, Publishes, Held
<1>8. CASE Restart
  BY <1>8 DEF Restart, Publishes, history
<1>9. ASSUME NEW e \in Edits, Edit(e) PROVE ShadowFits'
  BY <1>9 DEF Edit, server
<1>10. ASSUME NEW s \in Sessions, CutFork(s) PROVE ShadowFits'
  BY <1>10 DEF CutFork, Suffers, PeekIfCovered, Drained, history
<1>11. ASSUME NEW s \in Sessions, Mount(s) PROVE ShadowFits'
  BY <1>11 DEF Mount, Suffers, Forget, pipeline, history
<1>12. ASSUME NEW s \in Sessions, OpenFails(s) PROVE ShadowFits'
  BY <1>12 DEF OpenFails, Forget, Suffers, PeekIfCovered, Row, Drained, history
<1>13. ASSUME NEW s \in Sessions, Shadow(s) PROVE ShadowFits'
  BY <1>13 DEF Shadow, Suffers, forks, history
<1>14. ASSUME NEW s \in Sessions, Unmount(s) PROVE ShadowFits'
  BY <1>14 DEF Unmount, Suffers, Forget, Own, pipeline
<1>15. ASSUME NEW s \in Sessions, ResolveSession(s) PROVE ShadowFits'
  <2>1. /\ amiss \subseteq amiss' /\ closing' = [closing EXCEPT ![s] = "none"]
        /\ phase' = phase /\ slot' = slot /\ mounts' = mounts
        /\ opening' = opening /\ shadowed' = FALSE
        /\ closing[s] = "bare" /\ phase # "down"
    BY <1>15 DEF ResolveSession, Deafens, Suffers, PeekIfCovered, Drained, Forget, Own, history
  <2> QED  BY <2>1
<1>16. ASSUME NEW s \in Sessions, ResolveFails(s) PROVE ShadowFits'
  <2>1. /\ amiss \subseteq amiss' /\ closing' = [closing EXCEPT ![s] = "none"]
        /\ phase' = phase /\ slot' = slot /\ mounts' = mounts
        /\ opening' = opening /\ shadowed' = FALSE
        /\ closing[s] = "bare" /\ phase # "down"
    BY <1>16 DEF ResolveFails, Deafens, Suffers, PeekIfCovered, Row, Drained, Forget, Own
  <2> QED  BY <2>1
<1>17. ASSUME NEW s \in Sessions, SessionFork(s) PROVE ShadowFits'
  BY <1>17 DEF SessionFork, pipeline, forks, history
<1>18. ASSUME NEW s \in Sessions, Resolve(s) PROVE ShadowFits'
  BY <1>18 DEF Resolve, Suffers, pipeline, forks, history
<1>19. ASSUME NEW s \in Sessions, Apply(s) PROVE ShadowFits'
  BY <1>19 DEF Apply, Suffers, UnseenIfLost, Forget, Publishes, history
<1>20. ASSUME NEW s \in Sessions, Refuse(s) PROVE ShadowFits'
  BY <1>20 DEF Refuse, Suffers, Forget, Own
<1>21. ASSUME NEW s \in Sessions, SwapFails(s) PROVE ShadowFits'
  BY <1>21 DEF SwapFails, Suffers, PeekIfCovered, Baselined, Forget, Publishes, history
<1>22. ASSUME NEW s \in Sessions, ApplyFails(s) PROVE ShadowFits'
  BY <1>22 DEF ApplyFails, Forget, Own
<1>23. ASSUME NEW s \in Sessions, BaselineFails(s) PROVE ShadowFits'
  BY <1>23 DEF BaselineFails, Suffers, UnseenIfLost, PeekIfCovered, Baselined, Forget, Publishes, history
<1>24. ASSUME NEW s \in Sessions, Discard(s) PROVE ShadowFits'
  BY <1>24 DEF Discard, Forget, Own, pipeline
<1>25. CASE UNCHANGED vars
  BY <1>25 DEF vars, pipeline, server, forks, history
<1> QED
  BY <1>1, <1>2, <1>3, <1>4, <1>5, <1>6, <1>7, <1>8, <1>9, <1>10, <1>11, <1>12, <1>13, <1>14,
     <1>15, <1>16, <1>17, <1>18, <1>19, <1>20, <1>21, <1>22, <1>23, <1>24, <1>25 DEF Next, Tasks, Applies

\* A step takes an edit from the hints only into the checkout.
LEMMA StepTracked ==
  TypeOK /\ Rooted /\ EditsTracked /\ [Next]_vars => EditsTracked'
<1> SUFFICES ASSUME TypeOK, Rooted, EditsTracked, [Next]_vars PROVE EditsTracked'
  OBVIOUS
<1> USE DEF TypeOK, Rooted, EditsTracked, Spared
<1>1. CASE Checkpoint
  BY <1>1 DEF Checkpoint, Suffers, WindowIfOpen, Row, Drained, server, forks, history
<1>2. CASE Recover
  BY <1>2 DEF Recover, Suffers, WindowIfOpen, Baselined, Publishes, server, history
<1>3. CASE Cut
  BY <1>3 DEF Cut, Suffers, PeekIfCovered, Row, Drained, server, forks, history
<1>4. CASE Commit
  BY <1>4 DEF Commit, Publishes, server, history
<1>5. CASE ResolveStray
  BY <1>5 DEF ResolveStray, Suffers, Forget, pipeline, history
<1>6. CASE Stop
  BY <1>6 DEF Stop, Suffers, Forget, Own, pipeline
<1>7. CASE Exit
  BY <1>7 DEF Exit, Suffers, Forget, Own, Publishes, Held
<1>8. CASE Restart
  BY <1>8 DEF Restart, Publishes, history
<1>9. ASSUME NEW e \in Edits, Edit(e) PROVE EditsTracked'
  BY <1>9 DEF Edit, server
<1>10. ASSUME NEW s \in Sessions, CutFork(s) PROVE EditsTracked'
  BY <1>10 DEF CutFork, Suffers, PeekIfCovered, Drained, history
<1>11. ASSUME NEW s \in Sessions, Mount(s) PROVE EditsTracked'
  BY <1>11 DEF Mount, Suffers, Forget, pipeline, history
<1>12. ASSUME NEW s \in Sessions, OpenFails(s) PROVE EditsTracked'
  BY <1>12 DEF OpenFails, Forget, Suffers, PeekIfCovered, Row, Drained, history
<1>13. ASSUME NEW s \in Sessions, Shadow(s) PROVE EditsTracked'
  BY <1>13 DEF Shadow, Suffers, forks, history
<1>14. ASSUME NEW s \in Sessions, Unmount(s) PROVE EditsTracked'
  BY <1>14 DEF Unmount, Suffers, Forget, Own, pipeline
<1>15. ASSUME NEW s \in Sessions, ResolveSession(s) PROVE EditsTracked'
  BY <1>15 DEF ResolveSession, Deafens, Suffers, PeekIfCovered, Drained, Forget, Own, history
<1>16. ASSUME NEW s \in Sessions, ResolveFails(s) PROVE EditsTracked'
  BY <1>16 DEF ResolveFails, Deafens, Suffers, PeekIfCovered, Row, Drained, Forget, Own
<1>17. ASSUME NEW s \in Sessions, SessionFork(s) PROVE EditsTracked'
  BY <1>17 DEF SessionFork, pipeline, forks, history
<1>18. ASSUME NEW s \in Sessions, Resolve(s) PROVE EditsTracked'
  BY <1>18 DEF Resolve, Suffers, pipeline, forks, history
<1>19. ASSUME NEW s \in Sessions, Apply(s) PROVE EditsTracked'
  BY <1>19 DEF Apply, Suffers, UnseenIfLost, Forget, Publishes, history
<1>20. ASSUME NEW s \in Sessions, Refuse(s) PROVE EditsTracked'
  BY <1>20 DEF Refuse, Suffers, Forget, Own
<1>21. ASSUME NEW s \in Sessions, SwapFails(s) PROVE EditsTracked'
  BY <1>21 DEF SwapFails, Suffers, PeekIfCovered, Baselined, Forget, Publishes, history
<1>22. ASSUME NEW s \in Sessions, ApplyFails(s) PROVE EditsTracked'
  BY <1>22 DEF ApplyFails, Forget, Own
<1>23. ASSUME NEW s \in Sessions, BaselineFails(s) PROVE EditsTracked'
  BY <1>23 DEF BaselineFails, Suffers, UnseenIfLost, PeekIfCovered, Baselined, Forget, Publishes, history
<1>24. ASSUME NEW s \in Sessions, Discard(s) PROVE EditsTracked'
  BY <1>24 DEF Discard, Forget, Own, pipeline
<1>25. CASE UNCHANGED vars
  BY <1>25 DEF vars, pipeline, server, forks, history
<1> QED
  BY <1>1, <1>2, <1>3, <1>4, <1>5, <1>6, <1>7, <1>8, <1>9, <1>10, <1>11, <1>12, <1>13, <1>14,
     <1>15, <1>16, <1>17, <1>18, <1>19, <1>20, <1>21, <1>22, <1>23, <1>24, <1>25 DEF Next, Tasks, Applies

\* A fork's base has been recorded; no fork holds what another session did, and
\* nothing of the mainline's does.  Edits are made once.
Apart ==
  /\ disk \cup hints \cup view \cup head \cup recorded \cup given \subseteq made
  /\ \A s \in Sessions : overlay[s] \subseteq made /\ base[s] \subseteq recorded
  /\ Spared({"race", "window", "peek"}) =>
       /\ given \cap (Mainline \cup hints) = {}
       /\ \A s \in Sessions : Own(s) \cap (Mainline \cup hints \cup given) = {}
       /\ \A s, t \in Sessions : s # t => Own(s) \cap Own(t) = {}

\* Every step keeps them apart.
LEMMA StepApart ==
  TypeOK /\ Rooted /\ Apart /\ [Next]_vars => Apart'
<1> SUFFICES ASSUME TypeOK, Rooted, Apart, [Next]_vars PROVE Apart'
  OBVIOUS
<1> USE SessionsAssumption DEF TypeOK, Rooted, Apart, Spared, Mainline, Own, Trees
<1>1. CASE Checkpoint
  BY <1>1 DEF Checkpoint, Suffers, WindowIfOpen, Row, Drained, server, forks, history
<1>2. CASE Recover
  BY <1>2 DEF Recover, Suffers, WindowIfOpen, Baselined, Publishes, server, history
<1>3. CASE Cut
  BY <1>3 DEF Cut, Suffers, PeekIfCovered, Row, Drained, server, forks, history
<1>4. CASE Commit
  BY <1>4 DEF Commit, Publishes, server, history
<1>5. CASE ResolveStray
  BY <1>5 DEF ResolveStray, Suffers, Forget, pipeline, history
<1>6. CASE Stop
  BY <1>6 DEF Stop, Suffers, Forget, pipeline
<1>7. CASE Exit
  BY <1>7 DEF Exit, Suffers, Forget, Publishes, Held
<1>8. CASE Restart
  BY <1>8 DEF Restart, Publishes, history
<1>9. ASSUME NEW e \in Edits, Edit(e) PROVE Apart'
  BY <1>9 DEF Edit, server
<1>10. ASSUME NEW s \in Sessions, CutFork(s) PROVE Apart'
  BY <1>10 DEF CutFork, Suffers, PeekIfCovered, Drained, history
<1>11. ASSUME NEW s \in Sessions, Mount(s) PROVE Apart'
  BY <1>11 DEF Mount, Suffers, Forget, pipeline, history
<1>12. ASSUME NEW s \in Sessions, OpenFails(s) PROVE Apart'
  BY <1>12 DEF OpenFails, Forget, Suffers, PeekIfCovered, Row, Drained, history
<1>13. ASSUME NEW s \in Sessions, Shadow(s) PROVE Apart'
  BY <1>13 DEF Shadow, Suffers, forks, history
<1>14. ASSUME NEW s \in Sessions, Unmount(s) PROVE Apart'
  <2>1. CASE mounts' = mounts \ {s} /\ UNCHANGED <<base, overlay, given, amiss>>
    BY <1>14, <2>1 DEF Unmount, Suffers, Forget, pipeline
  <2>2. CASE Suffers({"unmount"})
    BY <1>14, <2>2, SMTT(60) DEF Unmount, Suffers, Forget, pipeline
  <2> QED  BY <1>14, <2>1, <2>2 DEF Unmount
<1>15. ASSUME NEW s \in Sessions, ResolveSession(s) PROVE Apart'
  BY <1>15 DEF ResolveSession, Deafens, Suffers, PeekIfCovered, Drained, Forget, history
<1>16. ASSUME NEW s \in Sessions, ResolveFails(s) PROVE Apart'
  BY <1>16 DEF ResolveFails, Deafens, Suffers, PeekIfCovered, Row, Drained, Forget
<1>17. ASSUME NEW s \in Sessions, SessionFork(s) PROVE Apart'
  BY <1>17 DEF SessionFork, pipeline, forks, history
<1>18. ASSUME NEW s \in Sessions, Resolve(s) PROVE Apart'
  BY <1>18 DEF Resolve, Suffers, pipeline, forks, history
<1>19. ASSUME NEW s \in Sessions, Apply(s) PROVE Apart'
  BY <1>19 DEF Apply, Suffers, UnseenIfLost, Forget, Publishes, history
<1>20. ASSUME NEW s \in Sessions, Refuse(s) PROVE Apart'
  BY <1>20 DEF Refuse, Suffers, Forget
<1>21. ASSUME NEW s \in Sessions, SwapFails(s) PROVE Apart'
  BY <1>21 DEF SwapFails, Suffers, PeekIfCovered, Baselined, Forget, Publishes, history
<1>22. ASSUME NEW s \in Sessions, ApplyFails(s) PROVE Apart'
  BY <1>22 DEF ApplyFails, Forget
<1>23. ASSUME NEW s \in Sessions, BaselineFails(s) PROVE Apart'
  <2>1. \/ view' \subseteq head \cup disk' /\ disk' \in {disk, overlay[s]}
        \/ ~ Spared({"race", "window", "peek"})'
    BY <1>23 DEF BaselineFails, Suffers, UnseenIfLost, PeekIfCovered, Baselined, Forget, Publishes, history
  <2>2. /\ disk' \cup view' \cup head' \cup recorded' \subseteq made
        /\ recorded \cup overlay[s] \subseteq recorded'
    BY <1>23 DEF BaselineFails, Suffers, UnseenIfLost, PeekIfCovered, Baselined, Forget, Publishes, history
  <2> QED  BY <1>23, <2>1, <2>2, SMTT(60) DEF BaselineFails, Suffers, UnseenIfLost, PeekIfCovered, Baselined, Forget, Publishes, history
<1>24. ASSUME NEW s \in Sessions, Discard(s) PROVE Apart'
  BY <1>24 DEF Discard, Forget, pipeline
<1>25. CASE UNCHANGED vars
  BY <1>25 DEF vars, pipeline, server, forks, history
<1> QED
  BY <1>1, <1>2, <1>3, <1>4, <1>5, <1>6, <1>7, <1>8, <1>9, <1>10, <1>11, <1>12, <1>13, <1>14,
     <1>15, <1>16, <1>17, <1>18, <1>19, <1>20, <1>21, <1>22, <1>23, <1>24, <1>25 DEF Next, Tasks, Applies

\* A fork is forgotten only when what it did is elsewhere.
LEMMA StepKept ==
  TypeOK /\ Covering /\ Apart /\ WorkKept /\ [Next]_vars => WorkKept'
<1> SUFFICES ASSUME TypeOK, Covering, Apart, WorkKept, [Next]_vars PROVE WorkKept'
  OBVIOUS
<1> USE SessionsAssumption DEF TypeOK, Covering, Apart, WorkKept, Held, Own, Spared, Trees
<1>1. CASE Checkpoint
  BY <1>1 DEF Checkpoint, Suffers, WindowIfOpen, Row, Drained, server, forks, history
<1>2. CASE Recover
  BY <1>2 DEF Recover, Suffers, WindowIfOpen, Baselined, Publishes, server, history
<1>3. CASE Cut
  BY <1>3 DEF Cut, Suffers, PeekIfCovered, Row, Drained, server, forks, history
<1>4. CASE Commit
  BY <1>4 DEF Commit, Publishes, server, history
<1>5. CASE ResolveStray
  BY <1>5 DEF ResolveStray, Suffers, Forget, pipeline, history
<1>6. CASE Stop
  BY <1>6 DEF Stop, Suffers, Forget, pipeline
<1>7. CASE Exit
  BY <1>7 DEF Exit, Suffers, Forget, Publishes
<1>8. CASE Restart
  BY <1>8 DEF Restart, Publishes, history
<1>9. ASSUME NEW e \in Edits, Edit(e) PROVE WorkKept'
  BY <1>9 DEF Edit, server
<1>10. ASSUME NEW s \in Sessions, CutFork(s) PROVE WorkKept'
  BY <1>10 DEF CutFork, Suffers, PeekIfCovered, Drained, history
<1>11. ASSUME NEW s \in Sessions, Mount(s) PROVE WorkKept'
  BY <1>11 DEF Mount, Suffers, Forget, pipeline, history
<1>12. ASSUME NEW s \in Sessions, OpenFails(s) PROVE WorkKept'
  BY <1>12 DEF OpenFails, Forget, Suffers, PeekIfCovered, Row, Drained, history
<1>13. ASSUME NEW s \in Sessions, Shadow(s) PROVE WorkKept'
  BY <1>13 DEF Shadow, Suffers, forks, history
<1>14. ASSUME NEW s \in Sessions, Unmount(s) PROVE WorkKept'
  BY <1>14 DEF Unmount, Suffers, Forget, pipeline
<1>15. ASSUME NEW s \in Sessions, ResolveSession(s) PROVE WorkKept'
  BY <1>15 DEF ResolveSession, Deafens, Suffers, PeekIfCovered, Drained, Forget, history
<1>16. ASSUME NEW s \in Sessions, ResolveFails(s) PROVE WorkKept'
  BY <1>16 DEF ResolveFails, Deafens, Suffers, PeekIfCovered, Row, Drained, Forget
<1>17. ASSUME NEW s \in Sessions, SessionFork(s) PROVE WorkKept'
  BY <1>17 DEF SessionFork, pipeline, forks, history
<1>18. ASSUME NEW s \in Sessions, Resolve(s) PROVE WorkKept'
  BY <1>18 DEF Resolve, Suffers, pipeline, forks, history
<1>19. ASSUME NEW s \in Sessions, Apply(s) PROVE WorkKept'
  BY <1>19, SMTT(30) DEF Apply, Suffers, UnseenIfLost, Forget, Publishes, history
<1>20. ASSUME NEW s \in Sessions, Refuse(s) PROVE WorkKept'
  BY <1>20 DEF Refuse, Suffers, Forget
<1>21. ASSUME NEW s \in Sessions, SwapFails(s) PROVE WorkKept'
  BY <1>21 DEF SwapFails, Suffers, PeekIfCovered, Baselined, Forget, Publishes, history
<1>22. ASSUME NEW s \in Sessions, ApplyFails(s) PROVE WorkKept'
  BY <1>22 DEF ApplyFails, Forget
<1>23. ASSUME NEW s \in Sessions, BaselineFails(s) PROVE WorkKept'
  BY <1>23 DEF BaselineFails, Suffers, UnseenIfLost, PeekIfCovered, Baselined, Forget, Publishes, history
<1>24. ASSUME NEW s \in Sessions, Discard(s) PROVE WorkKept'
  BY <1>24 DEF Discard, Forget, pipeline
<1>25. CASE UNCHANGED vars
  BY <1>25 DEF vars, pipeline, server, forks, history
<1> QED
  BY <1>1, <1>2, <1>3, <1>4, <1>5, <1>6, <1>7, <1>8, <1>9, <1>10, <1>11, <1>12, <1>13, <1>14,
     <1>15, <1>16, <1>17, <1>18, <1>19, <1>20, <1>21, <1>22, <1>23, <1>24, <1>25 DEF Next, Tasks, Applies

-----------------------------------------------------------------------------
(* The theorems *)

\* All of it holds at the start.
LEMMA InitRest ==
  Init => Rooted /\ Covering /\ ShadowFits /\ EditsTracked /\ Apart /\ WorkKept
BY SessionsAssumption
   DEF Init, Rooted, Covering, ShadowFits, EditsTracked, Apart, WorkKept, Spared, Mainline, Own

\* The pipeline is shadowed exactly while a session has the root, unless two
\* sessions met in the slot, a resolve was early or stray, or an unmount failed.
THEOREM ShadowFitsHolds == Spec => []ShadowFits
<1>1. Init => TypeOK /\ Rooted /\ Covering /\ ShadowFits
  BY InitTypes, InitRest
<1>2. TypeOK /\ Rooted /\ Covering /\ ShadowFits /\ [Next]_vars
        => (TypeOK /\ Rooted /\ Covering /\ ShadowFits)'
  BY StepTypes, StepRooted, StepCovering, StepShadow
<1> QED  BY <1>1, <1>2, PTL DEF Spec

\* No edit of the real tree is forgotten between the watcher and the checkout.
THEOREM EditsTrackedHolds == Spec => []EditsTracked
<1>1. Init => TypeOK /\ Rooted /\ EditsTracked
  BY InitTypes, InitRest
<1>2. TypeOK /\ Rooted /\ EditsTracked /\ [Next]_vars => (TypeOK /\ Rooted /\ EditsTracked)'
  BY StepTypes, StepRooted, StepTracked
<1> QED  BY <1>1, <1>2, PTL DEF Spec

\* Nothing a session did reaches the mainline but by an apply: while a mount covers
\* the root the pipeline is shadowed, or is about to be, and what is left is a
\* request that does not look.
THEOREM IsolatedHolds == Spec => []Isolated
<1>1. Init => TypeOK /\ Rooted /\ Apart
  BY InitTypes, InitRest
<1>2. TypeOK /\ Rooted /\ Apart /\ [Next]_vars => (TypeOK /\ Rooted /\ Apart)'
  BY StepTypes, StepRooted, StepApart
<1>3. TypeOK /\ Apart => Isolated
  BY DEF Apart, Isolated
<1> QED  BY <1>1, <1>2, <1>3, PTL DEF Spec

\* No edit is lost in silence on its way from the mount to the tree, whichever
\* operation fails.
THEOREM WorkKeptHolds == Spec => []WorkKept
<1>1. Init => TypeOK /\ Rooted /\ Covering /\ Apart /\ WorkKept
  BY InitTypes, InitRest
<1>2. TypeOK /\ Rooted /\ Covering /\ Apart /\ WorkKept /\ [Next]_vars
        => (TypeOK /\ Rooted /\ Covering /\ Apart /\ WorkKept)'
  BY StepTypes, StepRooted, StepCovering, StepApart, StepKept
<1> QED  BY <1>1, <1>2, PTL DEF Spec

=============================================================================
