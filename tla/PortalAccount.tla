----------------------------- MODULE PortalAccount -----------------------------
(***************************************************************************)
(* The pages of the customer site that make and change an account: the     *)
(* registration, with the challenge that the server issues, lets one wait  *)
(* for and accepts once; the request and the use of a password reset; the  *)
(* link that verifies an address; and the settings of an account. `place`  *)
(* is the page a behaviour is about.                                       *)
(***************************************************************************)
EXTENDS Naturals, FiniteSets

CONSTANT MaxChallenges   \* challenges issued

ASSUME AccountAssumption == MaxChallenges \in Nat \ {0}

\* Passwords by what the checks tell apart: the account's, one of six or seven
\* characters, which a reset accepts and the settings do not, and another; or "".
Passwords == {"current", "short", "new"}
FreeChallenge == MaxChallenges + 1   \* no challenge is asked for

VARIABLES place,
          availability,   \* of registration
          issued, spent,  \* server: challenges issued, and used
          guarded,        \* server: registration asks for a challenge
          challenge,      \* the page's: its number, FreeChallenge, or 0
          asking,         \* challengeLoading: the request, with its answer
          challengeReady,
          timers,         \* waits that run, by their challenge
          timerRef,       \* challengeTimerRef
          waited,         \* history: challenges whose wait is over
          joining,        \* the registration: idle, sent, answered, or again: after a failure
          joined,         \* the page after it: form, verify, dashboard
          tooEarly,       \* history: the server refused a challenge used before, or early
          link,           \* the verification link: [status, tried, calls]
          forgot,         \* the request of a reset: [loading, result]
          reset,          \* the new password: [step, complete, token]
          account,        \* server: the password, the address to be confirmed, and
                          \* whether the token of the reset was used
          person,         \* the settings page's user: none, stored, fresh
          personLoading, fields, saving, emailFields, emailSaving, emailRequest

challengePart == <<challenge, asking, challengeReady, timers, timerRef, waited>>
riskServer == <<issued, spent, guarded>>
joinPart == <<availability, joining, joined, tooEarly>>
linkPart == <<link, forgot, reset>>
passwordPart == <<fields, saving>>
emailPart == <<emailFields, emailSaving, emailRequest>>
settingsPart == <<account, person, personLoading, passwordPart, emailPart>>
accountVars == <<place, riskServer, challengePart, joinPart, linkPart, settingsPart>>

\* The two forms of the settings.
Empty == [old |-> "", new |-> "", confirm |-> ""]
NoEmail == [email |-> "", password |-> ""]
PasswordForms == [old : {"current", "new"}, new : {"short", "new"}, confirm : {"new"}]
EmailForms == [email : {"mine", "next"}, password : {"current", "new"}]

AccountInit ==
    /\ place \in {"register", "verify", "forgot", "reset", "settings"}
    /\ availability = "loading" /\ issued = 0 /\ spent = {} /\ guarded \in BOOLEAN
    /\ challenge = 0 /\ asking = "sent" /\ challengeReady = FALSE
    /\ timers = {} /\ timerRef = 0 /\ waited = {}
    /\ joining = "idle" /\ joined = "form" /\ tooEarly = FALSE
    /\ link \in {[status |-> "loading", tried |-> FALSE, token |-> TRUE, calls |-> 0],
                 [status |-> "error", tried |-> FALSE, token |-> FALSE, calls |-> 0]}
    /\ forgot = [loading |-> FALSE, result |-> "none"]
    /\ reset = [step |-> "idle", complete |-> FALSE, token |-> link.token, password |-> ""]
    /\ account = [password |-> "current", pending |-> "none", used |-> FALSE]
    /\ person = "none" /\ personLoading = TRUE
    /\ fields = Empty /\ saving = [step |-> "idle", form |-> Empty]
    /\ emailFields = NoEmail /\ emailSaving = [step |-> "idle", form |-> NoEmail]
    /\ emailRequest = "none"

-----------------------------------------------------------------------------
\* useRegistrationAvailability: closed only if the server says so.
Availability ==
    /\ place = "register" /\ availability = "loading"
    /\ availability' \in {"open", "closed"}
    /\ UNCHANGED <<place, riskServer, challengePart, joining, joined, tooEarly, linkPart,
                   settingsPart>>

\* loadChallenge: the wait of the challenge before ends with it.
LoadChallengeReady ==
    /\ timers' = timers \ {timerRef} /\ timerRef' = 0
    /\ asking' = "sent"
    /\ UNCHANGED <<challenge, challengeReady, waited>>
LoadChallenge ==
    /\ timers' = timers \ {timerRef} /\ timerRef' = 0
    /\ asking' = "sent" /\ challengeReady' = FALSE
    /\ UNCHANGED <<challenge, waited>>
ServeChallenge ==
    /\ place = "register" /\ asking = "sent"
    /\ \/ guarded /\ issued < MaxChallenges /\ issued' = issued + 1 /\ asking' = "numbered"
       \/ ~guarded /\ asking' = "free" /\ UNCHANGED issued
       \/ asking' = "failed" /\ UNCHANGED issued
    /\ UNCHANGED <<place, spent, guarded, challenge, challengeReady, timers, timerRef, waited,
                   joinPart, linkPart, settingsPart>>
\* The wait starts when the challenge arrives. A registration that failed ends here.
ChallengeAnswer ==
    /\ place = "register" /\ asking \in {"numbered", "free", "failed"}
    /\ asking' = IF asking = "failed" THEN "none" ELSE "idle"
    /\ challenge' = CASE asking = "numbered" -> issued [] asking = "free" -> FreeChallenge
                      [] OTHER -> 0
    /\ IF asking = "numbered" THEN timers' = timers \union {issued} /\ timerRef' = issued
       ELSE UNCHANGED <<timers, timerRef>>
    /\ challengeReady' = IF asking = "free" THEN TRUE ELSE challengeReady
    /\ joining' = IF joining = "again" THEN "idle" ELSE joining
    /\ UNCHANGED <<place, riskServer, waited, availability, joined, tooEarly, linkPart,
                   settingsPart>>
TimerFires(n) ==
    /\ n \in timers
    /\ timers' = timers \ {n} /\ timerRef' = 0
    /\ challengeReady' = TRUE /\ waited' = waited \union {n}
    /\ UNCHANGED <<place, riskServer, challenge, asking, joinPart, linkPart, settingsPart>>
\* The administrator turns the protection of the registration on.
Guard ==
    /\ place = "register" /\ ~guarded /\ guarded' = TRUE
    /\ UNCHANGED <<place, issued, spent, challengePart, joinPart, linkPart, settingsPart>>

Free == challenge = FreeChallenge
\* What the page shows: nothing yet, that registration is closed, the address to be
\* verified, or the form.
RegistrationShows ==
    IF availability # "open" THEN availability ELSE joined
\* The button of the form.
CanJoin ==
    /\ RegistrationShows = "form" /\ joining = "idle"
    /\ asking = "idle" /\ challenge # 0 /\ (Free \/ challengeReady)
\* submit, with two equal passwords.
Register ==
    /\ place = "register" /\ CanJoin
    /\ joining' = "sent"
    /\ UNCHANGED <<place, riskServer, challengePart, availability, joined, tooEarly,
                   linkPart, settingsPart>>
\* validateRegistrationRisk spends the challenge; then the account is made, or not,
\* for some other reason (the address is taken); an answer may be lost.
ServeRegister ==
    /\ place = "register" /\ joining = "sent"
    /\ LET refused == guarded /\ (Free \/ challenge \in spent \/ challenge \notin waited)
       IN  /\ joining' \in (IF refused THEN {"failed"} ELSE {"failed", "verify", "session"})
           /\ tooEarly' = (tooEarly \/ (refused /\ ~Free))
           /\ spent' = IF guarded /\ ~refused THEN spent \union {challenge} ELSE spent
    /\ UNCHANGED <<place, issued, guarded, challengePart, availability, joined, linkPart,
                   settingsPart>>
\* A failure asks for another challenge, and only then is the form usable again.
RegisterAnswer ==
    /\ place = "register" /\ joining \in {"failed", "verify", "session"}
    /\ IF joining = "failed"
       THEN LoadChallenge /\ joining' = "again" /\ UNCHANGED joined
       ELSE /\ joined' = IF joining = "verify" THEN "verify" ELSE "dashboard"
            /\ joining' = "idle" /\ UNCHANGED challengePart
    /\ UNCHANGED <<place, riskServer, availability, tooEarly, linkPart, settingsPart>>

-----------------------------------------------------------------------------
\* VerifyEmailPanel: the effect may run again (a development build runs it twice);
\* attemptedToken sends one request, for the token works once.
VerifyEffect ==
    /\ place = "verify" /\ link.token /\ ~link.tried
    /\ link' = [link EXCEPT !.tried = TRUE, !.calls = @ + 1]
    /\ UNCHANGED <<place, riskServer, challengePart, joinPart, forgot, reset, settingsPart>>
VerifyAnswer ==
    /\ place = "verify" /\ link.calls > 0
    /\ \E s \in {"success", "error"} : link' = [link EXCEPT !.calls = @ - 1, !.status = s]
    /\ UNCHANGED <<place, riskServer, challengePart, joinPart, forgot, reset, settingsPart>>

\* ForgotPasswordPage: the answer does not say whether the address is known; a server
\* that sends no mail answers with the link itself, which is then shown.
ForgotForm == ~forgot.loading /\ forgot.result = "none"
AskReset ==
    /\ place = "forgot" /\ ForgotForm
    /\ forgot' = [forgot EXCEPT !.loading = TRUE]
    /\ UNCHANGED <<place, riskServer, challengePart, joinPart, link, reset, settingsPart>>
AskResetAnswer ==
    /\ place = "forgot" /\ forgot.loading
    /\ \E r \in {"none", "mailed", "link"} : forgot' = [loading |-> FALSE, result |-> r]
    /\ UNCHANGED <<place, riskServer, challengePart, joinPart, link, reset, settingsPart>>
EnterAgain ==
    /\ place = "forgot" /\ forgot.result # "none"
    /\ forgot' = [forgot EXCEPT !.result = "none"]
    /\ UNCHANGED <<place, riskServer, challengePart, joinPart, link, reset, settingsPart>>

\* ResetPasswordPanel: two equal passwords of at least six characters, and a token,
\* which the server uses up before it changes the password.
ResetForm == ~reset.complete /\ reset.step = "idle" /\ reset.token
SubmitReset(p) ==
    /\ place = "reset" /\ ResetForm
    /\ reset' = [reset EXCEPT !.step = "sent", !.password = p]
    /\ UNCHANGED <<place, riskServer, challengePart, joinPart, link, forgot, settingsPart>>
ServeReset ==
    /\ place = "reset" /\ reset.step = "sent"
    /\ IF account.used THEN UNCHANGED account /\ reset' = [reset EXCEPT !.step = "failed"]
       ELSE \/ /\ account' \in {account, [account EXCEPT !.used = TRUE]}
               /\ reset' = [reset EXCEPT !.step = "failed"]
            \/ /\ account' = [account EXCEPT !.password = reset.password, !.used = TRUE]
               /\ \E step \in {"ok", "failed"} : reset' = [reset EXCEPT !.step = step]
    /\ UNCHANGED <<place, riskServer, challengePart, joinPart, link, forgot, person,
                   personLoading, passwordPart, emailPart>>
ResetAnswer ==
    /\ place = "reset" /\ reset.step \in {"ok", "failed"}
    /\ reset' = [reset EXCEPT !.step = "idle", !.complete = (reset.step = "ok")]
    /\ UNCHANGED <<place, riskServer, challengePart, joinPart, link, forgot, settingsPart>>

-----------------------------------------------------------------------------
\* SettingsPage: the session's user first, then the refreshed one; no session, no user.
Settings == place = "settings"
LoadPerson(has) ==
    /\ Settings /\ person = "none" /\ personLoading
    /\ person' = IF has THEN "stored" ELSE "none"
    /\ personLoading' = has
    /\ UNCHANGED <<place, riskServer, challengePart, joinPart, linkPart, account,
                   passwordPart, emailPart>>
PersonAnswer ==
    /\ Settings /\ person = "stored" /\ personLoading
    /\ person' \in {"stored", "fresh"} /\ personLoading' = FALSE
    /\ UNCHANGED <<place, riskServer, challengePart, joinPart, linkPart, account,
                   passwordPart, emailPart>>

\* The account above the two forms, which need it.
AccountSummary ==
    IF person # "none" THEN "account" ELSE IF personLoading THEN "loading" ELSE "unavailable"

\* PasswordField and the address: the two forms stay usable while a request is under
\* way. (A form is typed at once.)
FillPasswords(f) ==
    /\ Settings /\ fields' = f
    /\ UNCHANGED <<place, riskServer, challengePart, joinPart, linkPart, account, person,
                   personLoading, saving, emailPart>>
FillEmail(f) ==
    /\ Settings /\ emailFields' = f
    /\ UNCHANGED <<place, riskServer, challengePart, joinPart, linkPart, account, person,
                   personLoading, passwordPart, emailSaving, emailRequest>>

\* The button and the checks of updatePassword: 8 to 72 characters, twice the same,
\* and not the old one.
PasswordButton ==
    /\ saving.step = "idle" /\ AccountSummary = "account"
    /\ "" \notin {fields.old, fields.new, fields.confirm}
Acceptable(f) == f.new # "short" /\ f.new = f.confirm /\ f.new # f.old
UpdatePassword ==
    /\ Settings /\ PasswordButton /\ Acceptable(fields)
    /\ saving' = [step |-> "sent", form |-> fields]
    /\ UNCHANGED <<place, riskServer, challengePart, joinPart, linkPart, account, person,
                   personLoading, fields, emailPart>>
\* The server changes it for the right old one; the answer may be lost.
PasswordServed ==
    /\ Settings /\ saving.step = "sent"
    /\ \/ /\ saving.form.old = account.password
          /\ account' = [account EXCEPT !.password = saving.form.new]
          /\ \E step \in {"ok", "failed"} : saving' = [saving EXCEPT !.step = step]
       \/ UNCHANGED account /\ saving' = [saving EXCEPT !.step = "failed"]
    /\ UNCHANGED <<place, riskServer, challengePart, joinPart, linkPart, person,
                   personLoading, fields, emailPart>>
\* Success empties the three fields, whatever was typed since.
PasswordAnswer ==
    /\ Settings /\ saving.step \in {"ok", "failed"}
    /\ saving' = [step |-> "idle", form |-> Empty]
    /\ fields' = IF saving.step = "ok" THEN Empty ELSE fields
    /\ UNCHANGED <<place, riskServer, challengePart, joinPart, linkPart, account, person,
                   personLoading, emailPart>>

\* The button and the check of requestEmailChange: not the address of the account.
EmailButton ==
    /\ emailSaving.step = "idle" /\ AccountSummary = "account"
    /\ emailFields.email # "" /\ emailFields.password # ""
RequestEmailChange ==
    /\ Settings /\ EmailButton /\ emailFields.email # "mine"
    /\ emailSaving' = [step |-> "sent", form |-> emailFields] /\ emailRequest' = "none"
    /\ UNCHANGED <<place, riskServer, challengePart, joinPart, linkPart, account, person,
                   personLoading, passwordPart, emailFields>>
EmailChangeServed ==
    /\ Settings /\ emailSaving.step = "sent"
    /\ \/ /\ emailSaving.form.password = account.password
          /\ account' = [account EXCEPT !.pending = emailSaving.form.email]
          /\ \E step \in {"ok", "failed"} : emailSaving' = [emailSaving EXCEPT !.step = step]
       \/ UNCHANGED account /\ emailSaving' = [emailSaving EXCEPT !.step = "failed"]
    /\ UNCHANGED <<place, riskServer, challengePart, joinPart, linkPart, person,
                   personLoading, passwordPart, emailFields, emailRequest>>
\* The answer names the address; the password is asked for again.
EmailChangeAnswer ==
    /\ Settings /\ emailSaving.step \in {"ok", "failed"}
    /\ emailSaving' = [step |-> "idle", form |-> NoEmail]
    /\ IF emailSaving.step = "ok"
       THEN /\ emailRequest' = emailSaving.form.email
            /\ emailFields' = [emailFields EXCEPT !.password = ""]
       ELSE UNCHANGED <<emailRequest, emailFields>>
    /\ UNCHANGED <<place, riskServer, challengePart, joinPart, linkPart, account, person,
                   personLoading, passwordPart>>

AccountNext ==
    \/ Availability \/ ServeChallenge \/ ChallengeAnswer \/ Guard
    \/ \E n \in timers : TimerFires(n)
    \/ Register \/ ServeRegister \/ RegisterAnswer
    \/ VerifyEffect \/ VerifyAnswer
    \/ AskReset \/ AskResetAnswer \/ EnterAgain
    \/ \E p \in {"short", "new"} : SubmitReset(p)
    \/ ServeReset \/ ResetAnswer
    \/ \E has \in BOOLEAN : LoadPerson(has)
    \/ PersonAnswer
    \/ \E f \in PasswordForms : FillPasswords(f)
    \/ \E f \in EmailForms : FillEmail(f)
    \/ UpdatePassword \/ PasswordServed \/ PasswordAnswer
    \/ RequestEmailChange \/ EmailChangeServed \/ EmailChangeAnswer

-----------------------------------------------------------------------------
AccountTypeOK ==
    /\ issued \in 0..MaxChallenges /\ spent \subseteq 1..issued /\ waited \subseteq 1..issued
    /\ timers \subseteq 1..issued /\ timerRef \in timers \union {0}
    /\ challenge \in 0..issued \union {FreeChallenge}
    /\ joining \in {"idle", "sent", "failed", "verify", "session", "again"}
    /\ account.password \in Passwords /\ account.pending \in {"none", "next"}
    /\ fields \in PasswordForms \union {Empty} /\ emailFields.email \in {"", "mine", "next"}

\* A challenge is sent once and never before its wait is over, however often a
\* registration fails: the server never refuses one as early or as used.
ChallengeHonoured == ~tooEarly
\* The registration button is usable or will be: a request is under way or the wait
\* runs, or else the last challenge could not be read. Nothing asks for it again then,
\* and the button's spinner turns until the page is reloaded.
JoinFreed ==
    place = "register" /\ RegistrationShows = "form" =>
        CanJoin \/ asking = "none" \/ asking \notin {"idle", "none"}
        \/ joining # "idle" \/ timers # {}
\* A link is tried once, and its spinner ends; an accepted change of the address is
\* the one the page shows.
AccountFreed ==
    /\ ChallengeHonoured /\ JoinFreed
    /\ link.calls <= 1
    /\ link.status = "loading" => link.calls = 1 \/ ~link.tried
    /\ emailRequest \in {"none", account.pending}
=============================================================================
