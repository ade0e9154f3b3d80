--------------------------- MODULE LanguageProofs ---------------------------
(***************************************************************************)
(* Theorems about LanguagePreference, for every set of locales and every   *)
(* number of picks.                                                        *)
(***************************************************************************)
EXTENDS LanguagePreference, TLAPS

Out(c) == calls[c] > 0
NoneOut == \A c \in Call : calls[c] = 0

-----------------------------------------------------------------------------
\* Of a page on which nobody has picked anything: the stored language is on its way
\* to the screen or there, and nothing is on its way to the store.
Untouched ==
  picks = 0 /\ ~ trouble /\ atLoad \in Locales =>
    /\ stored = atLoad
    /\ \A c \in Call : Out(c) => c.kind = "get" /\ (c.served => c.value = atLoad)
    /\ hydrated => current = atLoad \/ \E c \in Call : Out(c)
    /\ ~ lastUpdateFromUserSettings => rendered = current /\ seen = current
    /\ lastUpdateFromUserSettings => current = atLoad /\ rendered \in {seen, current}

\* What is stored is a locale of this deployment, and the user has waited.
Orderly == ~ hasty /\ StoredIsLocale

\* What holds of the calls that are out: one get alone before anything changes, then
\* only sets of the language shown.
CallsAgree ==
  /\ \A c \in Call : Out(c) /\ c.kind = "get" =>
       /\ \A d \in Call : calls[d] = IF d = c THEN 1 ELSE 0
       /\ seen = current /\ rendered = current
       /\ ~ lastUpdateFromUserSettings
       /\ unsent = NoLanguage
       /\ c.served /\ ~ trouble => c.value = stored
       /\ c.value \in Locales \cup {NoLanguage}
  /\ \A c \in Call : Out(c) /\ c.kind = "set" => c.value = current
  /\ ~ hydrated => NoneOut

\* Who is about to send what: the flag is set only for a language just taken from
\* the store, and a pick is unsent only while an effect is due that will send it.
EffectDue ==
  /\ rendered \in {seen, current}
  /\ stored \in Locales \cup {NoLanguage}
  /\ lastUpdateFromUserSettings =>
       NoneOut /\ seen # current /\ unsent = NoLanguage /\ (~ trouble => stored = current)
  /\ unsent # NoLanguage => unsent = current /\ seen # current
  /\ ~ hydrated => seen = current /\ ~ lastUpdateFromUserSettings

\* Why the store will hold the language shown.
Agreement ==
  hydrated /\ ~ trouble =>
    \/ seen # current /\ ~ lastUpdateFromUserSettings
    \/ \E c \in Call : Out(c) /\ (c.kind = "set" => ~ c.served)
    \/ stored = current

PatientInv == Orderly => CallsAgree /\ EffectDue /\ Agreement

-----------------------------------------------------------------------------
LEMMA CallsExist ==
  /\ Get \in Call
  /\ \A l \in Locales : Set(l) \in Call
  /\ \A c \in Call, v \in Languages \cup {NoLanguage} : Served(c, v) \in Call
  /\ \A c \in Call : c.kind \in {"get", "set"} /\ c.value \in Languages \cup {NoLanguage}
  /\ Locales \subseteq Languages
  BY DEF Call, Get, Set, Served, Languages

\* Sending a call adds one of its kind.
LEMMA Sending ==
  ASSUME NEW cs \in [Call -> Nat], NEW c \in Call
  PROVE  /\ With(cs, c) \in [Call -> Nat]
         /\ \A d \in Call : With(cs, c)[d] = IF d = c THEN cs[d] + 1 ELSE cs[d]
  BY DEF With

\* The end of a call takes one away.
LEMMA Ending ==
  ASSUME NEW cs \in [Call -> Nat], NEW c \in Call, cs[c] > 0
  PROVE  /\ Without(cs, c) \in [Call -> Nat]
         /\ \A d \in Call : Without(cs, c)[d] = IF d = c THEN cs[d] - 1 ELSE cs[d]
  BY DEF Without

\* The languages, the calls and the counters stay within their sets.
THEOREM LanguageTypeCorrect == Spec => []LanguageTypeOK
<1>1. Init => LanguageTypeOK
  <2> SUFFICES ASSUME Init PROVE LanguageTypeOK
    OBVIOUS
  <2>1. stored \in Languages \cup {NoLanguage} BY DEF Init, Languages
  <2>2. picks \in 0 .. MaxPicks /\ others \in 0 .. MaxOthers
    BY LanguageAssumption DEF Init
  <2>3. calls \in [Call -> Nat] BY DEF Init
  <2>4. QED BY <2>1, <2>2, <2>3, LanguageAssumption DEF Init, LanguageTypeOK
<1>2. LanguageTypeOK /\ [Next]_vars => LanguageTypeOK'
  <2> SUFFICES ASSUME LanguageTypeOK, [Next]_vars PROVE LanguageTypeOK'
    OBVIOUS
  <2> USE LanguageAssumption DEF LanguageTypeOK
  <2>1. CASE IdentityResolves BY <2>1 DEF IdentityResolves
  <2>2. CASE StartSync BY <2>2, CallsExist, Sending DEF StartSync
  <2>3. CASE Commit BY <2>3 DEF Commit
  <2>4. CASE RunEffect
    <3>1. CASE PassOver BY <3>1 DEF PassOver, Ran
    <3>2. CASE Send BY <3>2, CallsExist, Sending DEF Send, Ran
    <3>3. QED BY <2>4, <3>1, <3>2 DEF RunEffect
  <2>5. ASSUME NEW c \in Call, Serve(c) PROVE LanguageTypeOK'
    <3> DEFINE answer == IF c.kind = "get" THEN stored ELSE c.value
    <3>1. answer \in Languages \cup {NoLanguage} BY CallsExist
    <3>2. Without(calls, c) \in [Call -> Nat] BY <2>5, Ending DEF Serve
    <3>3. calls' = With(Without(calls, c), Served(c, answer)) BY <2>5 DEF Serve
    <3> HIDE DEF answer
    <3>4. calls' \in [Call -> Nat] BY <3>1, <3>2, <3>3, Sending, CallsExist
    <3>5. stored' \in Languages \cup {NoLanguage} BY <2>5, CallsExist DEF Serve
    <3>6. QED BY <2>5, <3>4, <3>5 DEF Serve
  <2>6. ASSUME NEW c \in Call, CallFails(c) PROVE LanguageTypeOK'
    BY <2>6 DEF CallFails, Without
  <2>7. ASSUME NEW c \in Call, Answer(c) PROVE LanguageTypeOK'
    <3>1. CASE c.value = NoLanguage
      <4>1. Without(calls, c) \in [Call -> Nat] BY <2>7, Ending DEF Answer
      <4>2. calls' = With(Without(calls, c), Set(Default))
        BY <2>7, <3>1 DEF Answer, TakeAnswer, StoreDefault
      <4>3. calls' \in [Call -> Nat] BY <4>1, <4>2, Sending, CallsExist
      <4>4. QED BY <2>7, <3>1, <4>3 DEF Answer, TakeAnswer, StoreDefault
    <3>2. CASE c.value # NoLanguage
      <4>1. TakeStored(c) BY <2>7, <3>2 DEF Answer, TakeAnswer
      <4>2. calls' \in [Call -> Nat] BY <2>7, <4>1, Ending DEF Answer, TakeStored
      <4>3. QED BY <2>7, <4>1, <4>2 DEF Answer, TakeStored
    <3>3. QED BY <3>1, <3>2
  <2>8. ASSUME NEW l \in Locales, Pick(l) PROVE LanguageTypeOK' BY <2>8 DEF Pick
  <2>9. ASSUME NEW l \in Locales, OtherSession(l) PROVE LanguageTypeOK'
    <3>1. l \in Languages BY CallsExist
    <3>2. QED BY <2>9, <3>1 DEF OtherSession
  <2>10. CASE UNCHANGED vars BY <2>10 DEF vars
  <2>11. QED
    BY <2>1, <2>2, <2>3, <2>4, <2>5, <2>6, <2>7, <2>8, <2>9, <2>10 DEF Next, HookStep
<1>3. QED BY <1>1, <1>2, PTL DEF Spec

-----------------------------------------------------------------------------
LEMMA UntouchedInit == Init => Untouched
  BY DEF Init, Untouched, Out

LEMMA UntouchedStep == LanguageTypeOK /\ Untouched /\ [Next]_vars => Untouched'
<1> SUFFICES ASSUME LanguageTypeOK, Untouched, [Next]_vars,
                    picks' = 0, ~ trouble', atLoad' \in Locales
             PROVE  /\ stored' = atLoad'
                    /\ \A c \in Call : Out(c)' => c.kind = "get" /\ (c.served => c.value = atLoad')
                    /\ hydrated' => current' = atLoad' \/ \E c \in Call : Out(c)'
                    /\ ~ lastUpdateFromUserSettings' => rendered' = current' /\ seen' = current'
                    /\ lastUpdateFromUserSettings' => current' = atLoad' /\ rendered' \in {seen', current'}
  BY DEF Untouched
<1> USE LanguageAssumption DEF LanguageTypeOK, Untouched, Out
<1>0. calls \in [Call -> Nat] OBVIOUS
<1>1. CASE IdentityResolves BY <1>1 DEF IdentityResolves
<1>2. CASE StartSync
  <2>0. calls' = With(calls, Get) BY <1>2 DEF StartSync
  <2>1. \A c \in Call : With(calls, Get)[c] = IF c = Get THEN calls[c] + 1 ELSE calls[c]
    BY ONLY <1>0, Sending, CallsExist
  <2>2. calls'[Get] > 0 BY ONLY <2>0, <2>1, <1>0, CallsExist
  <2>3. \A c \in Call : calls'[c] > 0 => Out(c) \/ c = Get BY <2>0, <2>1
  <2>4. Get.kind = "get" /\ ~ Get.served BY DEF Get
  <2>5. QED BY <1>2, <2>2, <2>3, <2>4, CallsExist DEF StartSync
<1>3. CASE Commit BY <1>3 DEF Commit
<1>4. CASE RunEffect BY <1>4 DEF RunEffect, PassOver, Send, Ran
<1>5. ASSUME NEW c \in Call, Serve(c) PROVE Untouched'
  <2> DEFINE d == Served(c, stored)
  <2>1. c.kind = "get" /\ stored = atLoad /\ stored' = stored /\ picks = 0 /\ ~ trouble
        /\ atLoad' = atLoad
    BY <1>5 DEF Serve
  <2>2. d \in Call /\ d # c /\ d.kind = "get" /\ d.value = atLoad /\ d.served
    BY <1>5, <2>1, CallsExist DEF Serve, Served
  <2>a. Without(calls, c) \in [Call -> Nat] /\ calls' = With(Without(calls, c), d)
    BY <1>5, <2>1, Ending DEF Serve
  <2> HIDE DEF d
  <2>3. \A e \in Call : calls'[e] = IF e = d THEN calls[e] + 1
                                  ELSE IF e = c THEN calls[e] - 1 ELSE calls[e]
    BY <1>5, <2>2, <2>a, Sending, Ending DEF Serve
  <2>4. calls'[d] > 0 BY <2>2, <2>3, <1>0
  <2>5. \A e \in Call : calls'[e] > 0 => Out(e) \/ e = d BY <2>2, <2>3
  <2>6. \A e \in Call : calls'[e] > 0 => e.kind = "get" /\ (e.served => e.value = atLoad')
    BY <2>1, <2>2, <2>5
  <2>7. QED BY <1>5, <2>1, <2>2, <2>4, <2>6 DEF Serve
<1>6. ASSUME NEW c \in Call, CallFails(c) PROVE FALSE BY <1>6 DEF CallFails
<1>7. ASSUME NEW c \in Call, Answer(c) PROVE Untouched'
  <2>1. c.value = atLoad /\ atLoad # NoLanguage /\ picks = 0 /\ ~ trouble BY <1>7 DEF Answer
  <2>2. TakeStored(c) BY <1>7, <2>1 DEF Answer, TakeAnswer
  <2>3. \A e \in Call : Out(e)' => Out(e) BY <2>2 DEF TakeStored, Without
  <2>4. current' = atLoad' BY <1>7, <2>1, <2>2 DEF TakeStored, Answer
  <2>5. QED BY <1>7, <2>1, <2>2, <2>3, <2>4 DEF TakeStored, Answer
<1>8. ASSUME NEW l \in Locales, Pick(l) PROVE FALSE BY <1>8 DEF Pick
<1>9. ASSUME NEW l \in Locales, OtherSession(l) PROVE FALSE BY <1>9 DEF OtherSession
<1>10. CASE UNCHANGED vars BY <1>10 DEF vars
<1>11. QED
  BY <1>1, <1>2, <1>3, <1>4, <1>5, <1>6, <1>7, <1>8, <1>9, <1>10 DEF Next, HookStep

\* Whatever the page started with and however late the store answers, a page on
\* which nobody picks a language leaves the stored one alone and ends up showing it.
THEOREM StoredPreferenceIsKept == Spec => []StoredKeptWithoutPick
<1>1. LanguageTypeOK /\ Untouched => StoredKeptWithoutPick
  BY DEF LanguageTypeOK, Untouched, StoredKeptWithoutPick, Settled, Out
<1>2. QED
  BY <1>1, UntouchedInit, UntouchedStep, LanguageTypeCorrect, PTL DEF Spec

-----------------------------------------------------------------------------
\* Neither what was stored at load nor a hasty pick can be taken back.
LEMMA OrderlyBefore == [Next]_vars /\ Orderly' => Orderly
<1> USE DEF Orderly, StoredIsLocale
<1>1. CASE IdentityResolves \/ StartSync \/ Commit \/ RunEffect
  BY <1>1 DEF IdentityResolves, StartSync, Commit, RunEffect, PassOver, Send
<1>2. ASSUME NEW c \in Call, Serve(c) \/ CallFails(c) \/ Answer(c)
      PROVE  Orderly' => Orderly
  BY <1>2 DEF Serve, CallFails, Answer
<1>3. ASSUME NEW l \in Locales, Pick(l) \/ OtherSession(l) PROVE Orderly' => Orderly
  BY <1>3 DEF Pick, OtherSession
<1>4. CASE UNCHANGED vars BY <1>4 DEF vars
<1>5. QED BY <1>1, <1>2, <1>3, <1>4 DEF Next, HookStep

LEMMA PatientInit == Init => PatientInv
<1> SUFFICES ASSUME Init, Orderly PROVE CallsAgree /\ EffectDue /\ Agreement
  BY DEF PatientInv
<1>1. \A c \in Call : calls[c] = 0 BY DEF Init
<1>2. CallsAgree BY <1>1 DEF Init, CallsAgree, Out, NoneOut
<1>3. EffectDue BY LanguageAssumption DEF Init, EffectDue, Orderly, StoredIsLocale
<1>4. Agreement BY DEF Init, Agreement
<1>5. QED BY <1>2, <1>3, <1>4

LEMMA PatientStep == LanguageTypeOK /\ PatientInv /\ [Next]_vars => PatientInv'
<1> SUFFICES ASSUME LanguageTypeOK, CallsAgree, EffectDue, Agreement, Orderly', [Next]_vars
             PROVE  CallsAgree' /\ EffectDue' /\ Agreement'
  BY OrderlyBefore DEF PatientInv
<1> USE LanguageAssumption DEF CallsAgree, EffectDue, Agreement, Out, NoneOut
<1>0. /\ calls \in [Call -> Nat]
      /\ {current, rendered, seen, Default} \subseteq Locales
      /\ \A c \in Call : calls[c] > 0 \/ calls[c] = 0
      /\ \A c \in Call : c.kind \in {"get", "set"}
  <2>1. \A c \in Call : c.kind \in {"get", "set"} BY ONLY CallsExist
  <2>2. QED BY <2>1 DEF LanguageTypeOK
<1>1. CASE IdentityResolves BY <1>1 DEF IdentityResolves
<1>2. CASE StartSync
  <2>1. \A c \in Call : With(calls, Get)[c] = IF c = Get THEN calls[c] + 1 ELSE calls[c]
    BY ONLY <1>0, Sending, CallsExist
  <2>2. NoneOut /\ calls' = With(calls, Get) BY <1>2 DEF StartSync
  <2>3. \A c \in Call : calls'[c] = IF c = Get THEN 1 ELSE 0
    BY ONLY <2>1, <2>2 DEF NoneOut
  <2>4. Get \in Call /\ Get.kind = "get" /\ ~ Get.served /\ Get.value = NoLanguage
    BY CallsExist DEF Get
  <2>5. CallsAgree' BY <1>2, <2>3, <2>4 DEF StartSync
  <2>6. EffectDue' BY <1>2 DEF StartSync
  <2>7. calls'[Get] > 0 BY ONLY <2>3, <2>4
  <2>8. Agreement' BY <2>4, <2>7
  <2>9. QED BY <2>5, <2>6, <2>8
<1>3. CASE Commit BY <1>0, <1>3 DEF Commit
<1>4. CASE PassOver BY <1>0, <1>4 DEF PassOver, Ran
<1>5. CASE Send
  <2>1. rendered = current /\ seen # current /\ seen' = current /\ hydrated
    BY <1>5 DEF Send, Ran
  <2>2. \A c \in Call : calls[c] > 0 => c.kind = "set" BY <2>1, CallsExist
  <2>3. \A c \in Call :
          With(calls, Set(current))[c] = IF c = Set(current) THEN calls[c] + 1 ELSE calls[c]
    BY ONLY <1>0, Sending, CallsExist
  <2>4. /\ Set(current) \in Call /\ Set(current).kind = "set"
        /\ Set(current).value = current /\ ~ Set(current).served
    BY <1>0, CallsExist DEF Set
  <2>5. calls' = With(calls, Set(current)) BY <1>5, <2>1 DEF Send
  <2>6. \A c \in Call : calls'[c] > 0 => c.kind = "set" /\ c.value = current
    BY <2>2, <2>3, <2>4, <2>5
  <2>7. calls'[Set(current)] > 0 BY ONLY <1>0, <2>3, <2>4, <2>5
  <2>8. CallsAgree' BY <1>5, <2>1, <2>6 DEF Send
  <2>9. EffectDue' BY <1>5, <2>1 DEF Send
  <2>10. Agreement' BY <2>4, <2>7
  <2>11. QED BY <2>8, <2>9, <2>10
<1>6. ASSUME NEW c \in Call, Serve(c), c.kind = "get"
      PROVE  CallsAgree' /\ EffectDue' /\ Agreement'
  <2> DEFINE d == Served(c, stored)
  <2>1. /\ d \in Call /\ d # c /\ d.kind = "get" /\ d.value = stored /\ d.served
        /\ stored \in Languages \cup {NoLanguage}
    BY <1>6, CallsExist DEF Serve, Served, LanguageTypeOK
  <2>2. /\ Without(calls, c) \in [Call -> Nat]
        /\ \A e \in Call : Without(calls, c)[e] = 0
    BY <1>0, <1>6, Ending DEF Serve
  <2>3. calls' = With(Without(calls, c), d) BY <1>6 DEF Serve
  <2> HIDE DEF d
  <2>4. \A e \in Call : calls'[e] = IF e = d THEN 1 ELSE 0
    BY ONLY <2>1, <2>2, <2>3, Sending
  <2>5. QED BY <1>6, <2>1, <2>4 DEF Serve
<1>7. ASSUME NEW c \in Call, Serve(c), c.kind = "set"
      PROVE  CallsAgree' /\ EffectDue' /\ Agreement'
  <2> DEFINE d == Served(c, current)
  <2>1. c.value = current /\ stored' = current /\ hydrated /\ ~ c.served /\ calls[c] > 0
    BY <1>7 DEF Serve
  <2>2. /\ d \in Call /\ d # c /\ d.kind = "set" /\ d.value = current /\ d.served
    BY <1>0, <1>7, <2>1, CallsExist DEF Served
  <2>3. /\ Without(calls, c) \in [Call -> Nat]
        /\ \A e \in Call : Without(calls, c)[e] = IF e = c THEN calls[e] - 1 ELSE calls[e]
    BY ONLY <1>0, <2>1, Ending, <1>7
  <2>4. calls' = With(Without(calls, c), d) BY <1>7, <2>1 DEF Serve
  <2> HIDE DEF d
  <2>5. \A e \in Call : calls'[e] = IF e = d THEN Without(calls, c)[e] + 1 ELSE Without(calls, c)[e]
    BY ONLY <2>2, <2>3, <2>4, Sending
  <2>6. \A e \in Call : calls'[e] > 0 => calls[e] > 0 \/ e = d
    BY <1>0, <2>3, <2>5
  <2>7. \A e \in Call : calls'[e] > 0 => e.kind = "set" /\ e.value = current
    BY <1>0, <1>7, <2>1, <2>2, <2>6
  <2>8. CallsAgree' BY <1>7, <2>1, <2>7 DEF Serve
  <2>9. ~ lastUpdateFromUserSettings BY <2>1, <1>7
  <2>10. EffectDue' BY <1>0, <1>7, <2>1, <2>9 DEF Serve
  <2>11. Agreement' BY <1>7, <2>1 DEF Serve
  <2>12. QED BY <2>8, <2>10, <2>11
<1>8. ASSUME NEW c \in Call, CallFails(c) PROVE CallsAgree' /\ EffectDue' /\ Agreement'
  <2>1. calls[c] > 0 /\ calls' = Without(calls, c) /\ trouble' BY <1>8 DEF CallFails
  <2>2. \A e \in Call : calls'[e] = IF e = c THEN calls[e] - 1 ELSE calls[e]
    BY ONLY <1>0, <1>8, <2>1, Ending
  <2>3. \A e \in Call : calls'[e] > 0 => calls[e] > 0 BY <1>0, <2>2
  <2>4. c.kind = "get" => \A e \in Call : calls'[e] = 0 BY <1>8, <2>1, <2>2
  <2>5. \A e \in Call : calls'[e] > 0 => e.kind = "set" /\ e.value = current
    BY <1>0, <1>8, <2>1, <2>3, <2>4
  <2>6. hydrated /\ ~ lastUpdateFromUserSettings BY <1>8, <2>1
  <2>7. CallsAgree' BY <1>8, <2>5, <2>6 DEF CallFails
  <2>8. EffectDue' BY <1>8, <2>6 DEF CallFails
  <2>9. Agreement' BY <2>1
  <2>10. QED BY <2>7, <2>8, <2>9
<1>9. ASSUME NEW c \in Call, Answer(c), c.kind = "get", c.value = NoLanguage
      PROVE  CallsAgree' /\ EffectDue' /\ Agreement'
  <2>1. calls[c] > 0 /\ StoreDefault(c) BY <1>9 DEF Answer, TakeAnswer
  <2>2. /\ Without(calls, c) \in [Call -> Nat]
        /\ \A e \in Call : Without(calls, c)[e] = 0
    BY <1>0, <1>9, <2>1, Ending
  <2>3. /\ Set(Default) \in Call /\ Set(Default).kind = "set"
        /\ Set(Default).value = Default /\ ~ Set(Default).served
    BY <1>0, CallsExist DEF Set
  <2>4. calls' = With(Without(calls, c), Set(Default)) BY <2>1 DEF StoreDefault
  <2>5. \A e \in Call : calls'[e] = IF e = Set(Default) THEN 1 ELSE 0
    BY ONLY <2>2, <2>3, <2>4, Sending
  <2>6. calls'[Set(Default)] > 0 BY ONLY <2>3, <2>5
  <2>7. hydrated /\ current' = Default /\ hydrated' BY <1>9, <2>1 DEF StoreDefault, Answer
  <2>8. CallsAgree' BY <2>3, <2>5, <2>7
  <2>9. EffectDue' BY <1>9, <2>1, <2>7 DEF Answer, StoreDefault
  <2>10. Agreement' BY <2>3, <2>6
  <2>11. QED BY <2>8, <2>9, <2>10
<1>10. ASSUME NEW c \in Call, Answer(c), c.kind = "get", c.value # NoLanguage
       PROVE  CallsAgree' /\ EffectDue' /\ Agreement'
  <2>1. calls[c] > 0 /\ TakeStored(c) /\ c.served /\ hydrated /\ c.value \in Locales
    BY <1>10 DEF Answer, TakeAnswer
  <2>2. \A e \in Call : calls'[e] = 0
    BY <1>0, <1>10, <2>1, Ending DEF TakeStored
  <2>3. current' = c.value /\ lastUpdateFromUserSettings' = (c.value # current)
    BY <1>10, <2>1 DEF TakeStored, LanguageTypeOK
  <2>4. /\ seen = current /\ rendered = current /\ unsent = NoLanguage
        /\ ~ trouble => c.value = stored
    BY <1>10, <2>1
  <2>5. CallsAgree' BY <1>10, <2>1, <2>2 DEF Answer
  <2>6. EffectDue' BY <1>10, <2>1, <2>2, <2>3, <2>4 DEF Answer
  <2>7. Agreement' BY <1>10, <2>3, <2>4 DEF Answer
  <2>8. QED BY <2>5, <2>6, <2>7
<1>11. ASSUME NEW c \in Call, Answer(c), c.kind = "set"
       PROVE  CallsAgree' /\ EffectDue' /\ Agreement'
  <2>1. calls[c] > 0 /\ c.value = current /\ c.served /\ hydrated /\ current # NoLanguage
    BY <1>0, <1>11 DEF Answer
  <2>2. TakeStored(c) /\ current' = current
        /\ lastUpdateFromUserSettings' = lastUpdateFromUserSettings
    BY <1>11, <2>1 DEF Answer, TakeAnswer, TakeStored
  <2>3. \A e \in Call : calls'[e] = IF e = c THEN calls[e] - 1 ELSE calls[e]
    BY ONLY <1>0, <1>11, <2>1, <2>2, Ending DEF TakeStored
  <2>4. \A e \in Call : calls'[e] > 0 => calls[e] > 0 BY <1>0, <2>3
  <2>5. \A e \in Call : calls[e] > 0 => e.kind = "set" BY <1>0, <1>11, <2>1
  <2>6. \A e \in Call : calls'[e] > 0 => e.kind = "set" /\ e.value = current
    BY <2>4, <2>5
  <2>7. ~ lastUpdateFromUserSettings BY <1>11, <2>1
  <2>8. CallsAgree' BY <1>11, <2>1, <2>2, <2>6 DEF Answer
  <2>9. EffectDue' BY <1>11, <2>2, <2>7 DEF Answer
  <2>10. \A e \in Call : calls[e] > 0 /\ ~ e.served => calls'[e] > 0
    BY <2>1, <2>3
  <2>11. Agreement' BY <1>11, <2>2, <2>5, <2>10 DEF Answer
  <2>12. QED BY <2>8, <2>9, <2>11
<1>12. ASSUME NEW l \in Locales, Pick(l) PROVE CallsAgree' /\ EffectDue' /\ Agreement'
  <2>1. Settled /\ l # current /\ current' = l BY <1>12 DEF Pick, Orderly, Settled
  <2>2. ~ lastUpdateFromUserSettings /\ unsent = NoLanguage BY <2>1 DEF Settled
  <2>3. QED BY <1>12, <2>1, <2>2 DEF Pick, Settled
<1>13. ASSUME NEW l \in Locales, OtherSession(l)
       PROVE CallsAgree' /\ EffectDue' /\ Agreement'
  BY <1>13 DEF OtherSession
<1>14. CASE UNCHANGED vars BY <1>14 DEF vars
<1>15. QED
  BY <1>1, <1>2, <1>3, <1>4, <1>5, <1>6, <1>7, <1>8, <1>9, <1>10, <1>11, <1>12, <1>13,
     <1>14, CallsExist DEF Next, HookStep, RunEffect

\* When the stored language is a locale and the user waits for the page to settle,
\* every pick that stays on the screen is sent to the store.
THEOREM PicksAreSent == Spec => []EveryPickSent
<1>1. LanguageTypeOK /\ PatientInv => EveryPickSent
  BY LanguageAssumption
  DEF LanguageTypeOK, PatientInv, Orderly, EffectDue, EveryPickSent,
      PickedLanguageSaved, Settled
<1>2. QED
  BY <1>1, PatientInit, PatientStep, LanguageTypeCorrect, PTL DEF Spec

\* And without a lost call or another session, the page settles on the language that
\* is stored.
THEOREM PageAgreesWithStore == Spec => []ShownIsStored
<1>1. LanguageTypeOK /\ PatientInv => ShownIsStored
  BY LanguageAssumption
  DEF LanguageTypeOK, PatientInv, Orderly, EffectDue, Agreement, ShownIsStored,
      Settled, Out, Call
<1>2. QED
  BY <1>1, PatientInit, PatientStep, LanguageTypeCorrect, PTL DEF Spec
=============================================================================
