CONSTANTS
  Threads = {t1, t2}
  Interfaces = {i1, i2, i3}
  Commands = {"make_robot_ready", "reset_pp", "restart_controller", "request_mastership",
              "release_mastership", "stop_rapid_script"}
  MaxFaults = 1
SPECIFICATION FairSpec
INVARIANTS TypeOK NoSessionAbandoned
PROPERTIES ReadyMeansReady SessionComesBack
