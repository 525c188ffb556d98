\* The comment at merchant_simulator/app.py:87.
CONSTANTS
    Pollers = {m1}
    Cache = 1
    PollTime = 1
    MaxMisses = 0
    Sends = {s1}
    MaxOutstanding = 1
SPECIFICATION Spec
PROPERTIES StopStopsOriginating
