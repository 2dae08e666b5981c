------------------------- MODULE MCServices_proofs --------------------------
(* The services side by side: what is proved of each by itself holds of all   *)
(* of them together, for all values of the constants.                         *)
EXTENDS MCServices, Services_proofs, ParallelRoute_proofs, Access_proofs

\* The safety part of what each service promises.
EachServiceAlone ==
    /\ RunSpec /\ InboxSpec /\ TimersSpec /\ DocumentSpec /\ UploadSpec /\ NumberingSpec
    /\ ParallelSpec /\ AccessSpec

\* Every service starts in one of its own initial states.
LEMMA ServicesStart ==
    ServicesInit => /\ RunInit /\ InboxInit /\ TimersInit /\ DocumentInit /\ UploadInit
                    /\ NumberingInit /\ ParallelInit /\ AccessInit
BY DEF ServicesInit

\* A step of the services is a step of one of them, and the others stutter.
LEMMA ServicesStep ==
    [ServicesNext]_servicesVars =>
        /\ [RunNext]_runVars /\ [InboxNext]_inboxVars /\ [TimersNext]_timerVars
        /\ [DocumentNext]_documentVars /\ [UploadNext]_uploadVars /\ [NumberingNext]_numberVars
        /\ [ParallelNext]_routeVars /\ [AccessNext]_accessVars
BY DEF ServicesNext, servicesVars

\* The services side by side implement each of them by itself.
THEOREM ServicesImplementEach == ServicesSpec => EachServiceAlone
BY ServicesStart, ServicesStep, PTL
   DEF ServicesSpec, EachServiceAlone, RunSpec, InboxSpec, TimersSpec, DocumentSpec, UploadSpec,
       NumberingSpec, ParallelSpec, AccessSpec

\* So the inductive invariant of each holds of all.
THEOREM ServicesInvariance == ServicesSpec => []ServicesInv
<1>1. RunInv /\ InboxInv /\ TimersInv /\ UploadInv /\ NumberingInv /\ AccessInv /\ RouteInv /\ DocumentInv
        => ServicesInv
  BY DEF ServicesInv
<1> QED
  BY <1>1, ServicesImplementEach, RunInvariance, InboxInvariance, TimersInvariance,
     DocumentInvariance, UploadInvariance, NumberingInvariance, RouteInvariance, AccessTyped, PTL
     DEF EachServiceAlone

\* And so does what each promises, of a state and of a step.
THEOREM ServicesAreSafe ==
    ServicesSpec => /\ [](OneExecutor /\ SucceededDidAll) /\ RecordedNotRepeated
                    /\ [](CaseMatchesStep /\ OneAnswer)
                    /\ [](OneOutcome /\ FiresOnce)
                    /\ []OneFileWithItsObject
                    /\ [](OneNumberEach /\ NoNumberLost)
                    /\ []RouteIsWhole
                    /\ [](AnswersAgree /\ OneAnswerButNone) /\ BreakKeepsAccess
BY ServicesImplementEach, RunsAreExclusive, SuccessMeansDone, RecordedStays, ItemsFollowTheStep,
   AnsweredOnce, StepsEndOnce, TimersFireOnce, UploadGivesOneFile, NumbersAreUnique,
   NumbersHaveNoGap, RoutesAreWhole, QueriesFollowTheTree, OneAnswerEverywhere,
   BreakChangesNoLevel, PTL
   DEF EachServiceAlone

\* With them, where the row of a document was created with its object, that no
\* save takes out of it what another has stored.
THEOREM ServicesKeepWhatIsStored == ASSUME RowExists PROVE ServicesSpec => StoredStays
<1>1. DocumentSpec => StoredStays
  BY SavedIsKept
<1> QED
  BY <1>1, ServicesImplementEach, PTL DEF EachServiceAlone
=============================================================================
