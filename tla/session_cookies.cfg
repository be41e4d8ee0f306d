SPECIFICATION Spec
CONSTANTS
    Threads = {t1}
    Cookies = {YSC, PREF}
    Visitors = {v1}
INVARIANTS InitCookiesReplayed
