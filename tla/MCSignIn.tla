------------------------------ MODULE MCSignIn ------------------------------
EXTENDS SignIn, TLC

CONSTANTS b1, b2, t1, t2, t3, ann, bob, u, v, s1, s2, x1, x2, k1,
          c1, c2, c3, c4, c5, c6, r1, r2

MCHomeOf == (t1 :> b1) @@ (t2 :> b1) @@ (t3 :> b2)
\* Two people take turns at one browser; the tabs of one person race; one person
\* starts two sign-ins in one browser; one sign-in is answered in two browsers.
Bound(h, m, l, s, w, ds, ts) ==
    [haste |-> h, mishaps |-> m, logins |-> l, starts |-> s, who |-> w,
     does |-> ds, tabs |-> ts]
TakeTurns == Bound(1, 0, 2, 0, {ann, bob}, {"write", "logout"}, {t1, t2})
TabsRace == Bound(1, 1, 1, 0, {ann}, {"reload", "read", "write"}, {t1, t2})
TwoSignIns == Bound(1, 0, 0, 2, {}, {}, {t1, t2})
OneSignIn == Bound(1, 1, 0, 1, {}, {}, {t1, t3})
MCSettings == {TakeTurns, TabsRace, TwoSignIns, OneSignIn}
MCMail == (u :> {ann, bob}) @@ (v :> {bob})
=============================================================================
