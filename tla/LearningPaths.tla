---------------------------- MODULE LearningPaths ----------------------------
(***************************************************************************)
(* The page of the learning paths (LearningPathsPage.tsx) and its data     *)
(* (useLearningPathData.ts): a request to the proxy of the backend         *)
(* (LearningPathApiClient.ts) and, when that fails, one for a file that    *)
(* is served with the app.  The user may leave the page and come back.     *)
(***************************************************************************)
VARIABLE visit  \* the request the page waits for, and the state of its hook

NotOpen == [waits |-> "nowhere", isLoading |-> TRUE, data |-> "none", error |-> "none"]

VisitInit == visit = NotOpen

Open == visit = NotOpen /\ visit' = [NotOpen EXCEPT !.waits = "api"]

Leave == visit # NotOpen /\ visit' = NotOpen

\* The client returns the body of the answer; a body that is null or false is
\* neither value nor error, and the hook goes on loading.
GetLearningPathData(value) ==
  /\ visit.waits = "api"
  /\ visit' = IF value
              THEN [visit EXCEPT !.waits = "nothing", !.data = "api", !.isLoading = FALSE]
              ELSE [visit EXCEPT !.waits = "nothing"]

\* No address, no credentials, no answer, a status that is not ok, or no JSON.
ApiFails ==
  /\ visit.waits = "api"
  /\ visit' = [visit EXCEPT !.waits = "file", !.error = "api"]

\* The error of the API is not reset.
FetchData ==
  /\ visit.waits = "file"
  /\ visit' = [visit EXCEPT !.waits = "nothing", !.data = "file", !.isLoading = FALSE]

\* Broken: no catch at the call of fetchData.
FetchFails_Uncaught ==
  /\ visit.waits = "file"
  /\ visit' = [visit EXCEPT !.waits = "nothing"]

FetchFails ==
  /\ visit.waits = "file"
  /\ visit' = [visit EXCEPT !.waits = "nothing", !.error = "file", !.isLoading = FALSE]

\* LearningPathCards looks at the error before the data.
Page ==
  IF visit.isLoading THEN "progress"
  ELSE IF visit.error # "none" THEN "error"
  ELSE IF visit.data = "none" THEN "unknown error"
  ELSE "cards"

Answered ==
  \/ \E value \in BOOLEAN : GetLearningPathData(value)
  \/ ApiFails
  \/ FetchData
  \/ FetchFails

VisitNext == Open \/ Leave \/ Answered

VisitSpec == VisitInit /\ [][VisitNext]_visit /\ WF_visit(Answered)

-----------------------------------------------------------------------------
\* A visitor of the learning paths is not left with the progress indicator, whatever
\* fails, unless the API answers with nothing: there come cards or an error, whichever
\* it is that follows a failed API and a fallback that arrives (useLearningPathData).
VisitSettles ==
  visit.waits \in {"api", "file"} ~>
    \/ visit = NotOpen
    \/ Page \in {"cards", "error"}
    \/ visit.error = "none" /\ visit.data = "none"

\* The page "renders from the static fallback data bundled with packages/app"
\* (docs/e2e-tests/local-e2e-harness.md) once these have taken the place of the API's.
FallbackRenders == visit.data = "file" => Page = "cards"
=============================================================================
