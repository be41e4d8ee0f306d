SPECIFICATION Spec
CONSTANTS
    Threads = {t1, t2, t3}
    Cookies = {YSC}
    Visitors = {v1, v2}
INVARIANTS OneHomepageGet
PROPERTIES RequestsEnd InitLooksAtomic
